---------------------------- MODULE Spec2Model ----------------------------
(***************************************************************************)
(* A model of the KEGG flat-file layer of cobrababel: the record reader,   *)
(* the enzyme, reaction and organism record parsers and writers, and the   *)
(* record databases built on cobra's DictList.                             *)
(*                                                                         *)
(* Text is modelled as it is in the program: a str is a sequence of        *)
(* one-character strings, so that strip, split, find, slices and column    *)
(* padding are computed character by character.  An optional attribute     *)
(* (None or a value) is <<>> or <<v>>.                                     *)
(***************************************************************************)
EXTENDS Integers, Sequences, FiniteSets, TLC

VARIABLES
    handle,      \* get_record: the lines of the file handle being read
    rpos,        \* get_record: index of the next line of the handle
    record,      \* get_record: the local list `record`
    yielded,     \* get_record: the records yielded so far, in order
    ent,         \* the entity being written; databases: the argument of update()
    lines,       \* entity specifications: the record handed to parse()
    lpos,        \* parse(): index of the next line of the record
    field_name,  \* parse(): the local `field_name` (<<>> while unbound)
    obj,         \* parse(): the object under construction (self)
    warnings,    \* parse(): the warnings emitted so far, in order
    pc,          \* position of the caller; databases: the call made last
    records,     \* database: the list part of self.records (a DictList)
    rdict,       \* database: the _dict part of self.records (id -> position)
    disk,        \* database: the lines of the file at self.filename
    raised,      \* the exception the last call raised, or "none"
    code_to_id,  \* organism database: self.code_to_id
    kegg_args,   \* get_kegg_records: the arguments of the call
    start,       \* get_kegg_records: the local `start`
    end,         \* get_kegg_records: the local `end`
    counter,     \* get_kegg_records: the local `counter`
    result,      \* KEGG requests: the lines collected so far (`result`)
    sent,        \* KEGG requests: the requests issued so far, in order
                 \* (get_kegg_records, list_kegg_ids: with the status
                 \* code each was answered with)
    report,      \* set_representatives: the rows of the report, in order
    analysis,    \* set_representatives: per representative name, the
                 \* matches, the possible matches and the organism flagged
    fuzz,        \* set_representatives: the scores the fuzz functions give
    model,       \* translate: the model object passed in: the ids of its
                 \* metabolites and reactions, and whether its cobra
                 \* refuses an id the model holds already
    calls        \* translate: the calls made, each with its arguments,
                 \* the ids the model had before, and what it raised

vars == <<handle, rpos, record, yielded, ent, lines, lpos, field_name, obj,
          warnings, pc, records, rdict, disk, raised, code_to_id,
          kegg_args, start, end, counter, result, sent, report, analysis, fuzz, model,
          calls>>

readerVars == <<handle, rpos, record, yielded>>
entityVars == <<ent, lines, lpos, field_name, obj, warnings, pc>>
dbVars     == <<records, rdict, disk, raised, code_to_id>>
keggVars   == <<kegg_args, start, end, counter, result, sent>>
otuVars    == <<report, analysis, fuzz>>
trVars     == <<model, calls>>
auxVars    == <<keggVars, otuVars, trVars>>

-----------------------------------------------------------------------------
(* Python str operations, on sequences of characters.                      *)

Min(a, b) == IF a < b THEN a ELSE b
Max(a, b) == IF a < b THEN b ELSE a

\* string.whitespace, as far as the model's alphabet goes
Whitespace == {" ", "\t", "\n"}

\* a slice index as Python normalises it for a str of length n
SliceIndex(i, n) == IF i < 0 THEN Max(i + n, 0) ELSE Min(i, n)

\* s[a:b]
Slice(s, a, b) == SubSeq(s, SliceIndex(a, Len(s)) + 1, SliceIndex(b, Len(s)))

\* s[a:]
From(s, a) == SubSeq(s, SliceIndex(a, Len(s)) + 1, Len(s))

RECURSIVE LStrip(_, _)
LStrip(s, chars) ==
    IF s # <<>> /\ Head(s) \in chars THEN LStrip(Tail(s), chars) ELSE s

RECURSIVE RStrip(_, _)
RStrip(s, chars) ==
    IF s # <<>> /\ s[Len(s)] \in chars
    THEN RStrip(SubSeq(s, 1, Len(s) - 1), chars) ELSE s

\* s.strip(chars): both ends
StripChars(s, chars) == RStrip(LStrip(s, chars), chars)

\* s.strip()
Strip(s) == StripChars(s, Whitespace)

\* s.split(): the maximal runs of non-whitespace characters, in order
RECURSIVE SplitWs(_, _)
SplitWs(s, cur) ==
    IF s = <<>> THEN (IF cur = <<>> THEN <<>> ELSE <<cur>>)
    ELSE IF Head(s) \in Whitespace
         THEN (IF cur = <<>> THEN <<>> ELSE <<cur>>) \o SplitWs(Tail(s), <<>>)
         ELSE SplitWs(Tail(s), Append(cur, Head(s)))

Split(s) == SplitWs(s, <<>>)

\* s.split(c): every piece between separators, empty pieces kept
RECURSIVE SplitOnAcc(_, _, _)
SplitOnAcc(s, c, cur) ==
    IF s = <<>> THEN <<cur>>
    ELSE IF Head(s) = c THEN <<cur>> \o SplitOnAcc(Tail(s), c, <<>>)
         ELSE SplitOnAcc(Tail(s), c, Append(cur, Head(s)))

SplitOn(s, c) == SplitOnAcc(s, c, <<>>)

\* s.startswith(p)
StartsWith(s, p) == Len(s) >= Len(p) /\ SubSeq(s, 1, Len(p)) = p

\* s.find(sub): the lowest 0-based index where sub occurs, or -1
RECURSIVE FindFrom(_, _, _)
FindFrom(s, sub, i) ==
    IF i + Len(sub) > Len(s) THEN -1
    ELSE IF SubSeq(s, i + 1, i + Len(sub)) = sub THEN i
         ELSE FindFrom(s, sub, i + 1)

Find(s, sub) == FindFrom(s, sub, 0)

\* sep.join(parts)
RECURSIVE Join(_, _)
Join(parts, sep) ==
    IF parts = <<>> THEN <<>>
    ELSE IF Len(parts) = 1 THEN parts[1]
         ELSE parts[1] \o sep \o Join(Tail(parts), sep)

\* n spaces
Spaces(n) == [i \in 1..n |-> " "]

\* the characters of the model's alphabet in code point order
CodeOrder ==
    <<"\t", "\n", " ", "(", ")", "+", "-", ".", "/", "0", "1", "2", "3", "4",
      "5", "6", "7", "8", "9", ":", ";", "=", "A", "B", "C", "D", "E", "F",
      "G", "H", "I", "J", "K", "L", "M", "N", "O", "P", "Q", "R", "S", "T",
      "U", "V", "W", "X", "Y", "Z", "[", "]", "_", "a", "b", "c", "d", "e",
      "f", "g", "h", "i", "j", "k", "l", "m", "n", "o", "p", "q", "r", "s",
      "t", "u", "v", "w", "x", "y", "z">>

\* ord(c)
Ord(c) == CHOOSE i \in 1..Len(CodeOrder) : CodeOrder[i] = c

\* a < b on str: lexicographic by code point, a proper prefix first
RECURSIVE StrLess(_, _)
StrLess(a, b) ==
    IF b = <<>> THEN FALSE
    ELSE IF a = <<>> THEN TRUE
    ELSE IF Head(a) = Head(b) THEN StrLess(Tail(a), Tail(b))
    ELSE Ord(Head(a)) < Ord(Head(b))

\* c.lower() for one character
LowerChar(c) ==
    IF Ord(c) >= Ord("A") /\ Ord(c) <= Ord("Z")
    THEN CodeOrder[Ord(c) - Ord("A") + Ord("a")] ELSE c

\* s.lower()
Lower(s) == [i \in 1..Len(s) |-> LowerChar(s[i])]

\* sorted(S) for a set of str
RECURSIVE SortedStrs(_)
SortedStrs(S) ==
    IF S = {} THEN <<>>
    ELSE LET m == CHOOSE x \in S : \A y \in S \ {x} : StrLess(x, y)
         IN  <<m>> \o SortedStrs(S \ {m})

\* '{0}'.format(v) for an attribute that is None or a str
Format(v) == IF v = <<>> THEN <<"N", "o", "n", "e">> ELSE v[1]

-----------------------------------------------------------------------------
(* KeggDatabase.get_record: a generator over the lines of a file handle.   *)

\* the end-of-record test of get_record and of both parse() methods
IsDelimiter(line) == Slice(line, 0, 3) = <<"/", "/", "/">>

\* GetRecordStep without `record = list()` after the yield: the next record
\* still carries the lines of the one before.
GetRecordStep_NoReset(rec, line) ==
    LET r == Append(rec, StripChars(line, {"\n"}))
    IN  IF IsDelimiter(line)
        THEN [record |-> r, out |-> <<r>>]
        ELSE [record |-> r, out |-> <<>>]

\* One iteration of `for line in handle`: append the line without its
\* newline characters, and yield and restart the record at a delimiter.
GetRecordStep(rec, line) ==
    LET r == Append(rec, StripChars(line, {"\n"}))
    IN  IF IsDelimiter(line)
        THEN [record |-> <<>>, out |-> <<r>>]
        ELSE [record |-> r, out |-> <<>>]

\* list(get_record(handle)): every record the generator yields
RECURSIVE GetRecords(_, _)
GetRecords(h, rec) ==
    IF h = <<>> THEN <<>>
    ELSE LET st == GetRecordStep(rec, Head(h))
         IN  st.out \o GetRecords(Tail(h), st.record)

-----------------------------------------------------------------------------
(* Values of the variables a specification does not use.                   *)

ReaderIdle ==
    /\ handle = <<>>
    /\ rpos = 1
    /\ record = <<>>
    /\ yielded = <<>>

EntityIdle ==
    /\ ent = <<>>
    /\ lines = <<>>
    /\ lpos = 1
    /\ field_name = <<>>
    /\ obj = <<>>
    /\ warnings = <<>>
    /\ pc = "idle"

DbIdle ==
    /\ records = <<>>
    /\ rdict = <<>>
    /\ disk = <<>>
    /\ raised = "none"
    /\ code_to_id = <<>>

KeggIdle ==
    /\ kegg_args = <<>>
    /\ start = 0
    /\ end = 0
    /\ counter = 0
    /\ result = <<>>
    /\ sent = <<>>

OtuIdle == report = <<>> /\ analysis = <<>> /\ fuzz = <<>>

TranslateIdle ==
    /\ model = <<>>
    /\ calls = <<>>

AuxIdle == KeggIdle /\ OtuIdle /\ TranslateIdle

\* every sequence over S of length at most n
SeqsUpTo(S, n) == UNION {[1..k -> S] : k \in 0..n}

-----------------------------------------------------------------------------
(* SpecReader: get_record run over a file handle, one line per step.       *)

\* most lines a handle holds
MaxLines == 4

\* the lines a handle may hold: a delimiter, a line that starts with the
\* delimiter and goes on, an ordinary line, an indented delimiter
ReaderLines ==
    { <<"/", "/", "/", "\n">>,
      <<"/", "/", "/", "x", "\n">>,
      <<"a", "\n">>,
      <<" ", "/", "/", "/", "\n">> }

ReaderInit ==
    /\ handle \in SeqsUpTo(ReaderLines, MaxLines)
    /\ rpos = 1
    /\ record = <<>>
    /\ yielded = <<>>
    /\ EntityIdle
    /\ DbIdle
    /\ AuxIdle

\* the body of `for line in handle` in get_record, once
ReaderStep ==
    /\ rpos <= Len(handle)
    /\ LET st == GetRecordStep(record, handle[rpos])
       IN  /\ record' = st.record
           /\ yielded' = yielded \o st.out
    /\ rpos' = rpos + 1
    /\ UNCHANGED <<handle, entityVars, dbVars, auxVars>>

ReaderNext == ReaderStep

SpecReader == ReaderInit /\ [][ReaderNext]_vars

\* the handle is exhausted: the generator has stopped
ReaderDone == rpos > Len(handle)

\* the lines consumed so far, as get_record stores them
ConsumedLines == [i \in 1..(rpos - 1) |-> StripChars(handle[i], {"\n"})]

RECURSIVE Flatten(_)
Flatten(ss) == IF ss = <<>> THEN <<>> ELSE Head(ss) \o Flatten(Tail(ss))

TripleSlash == <<"/", "/", "/">>

-----------------------------------------------------------------------------
(* Claims about the record reader.                                         *)

\* C7 (as claimed): the reader ends a record only at a line that is exactly
\* '///', so every yielded record ends in the line '///' and a line that
\* starts with '///' and goes on stays inside its record.
C7_EndsOnlyAtExactDelimiter ==
    \A k \in 1..Len(yielded) :
        /\ yielded[k][Len(yielded[k])] = TripleSlash
        /\ \A j \in 1..(Len(yielded[k]) - 1) : yielded[k][j] # TripleSlash

\* C8: at every point of the read, the reader has yielded exactly one record
\* per line it ended a record at (a line whose first three characters are
\* '///'), the yielded records followed by the unfinished one are the lines
\* read so far in input order, and each yielded record ends at such a line
\* and holds no other; so the lines after the last such line are never
\* yielded and leave the records before them as they were.
C8_OneRecordPerTerminator ==
    /\ Len(yielded) = Cardinality({i \in 1..(rpos - 1) : IsDelimiter(handle[i])})
    /\ Flatten(yielded) \o record = ConsumedLines
    /\ \A k \in 1..Len(yielded) :
        /\ yielded[k] # <<>>
        /\ \A j \in 1..Len(yielded[k]) :
            IsDelimiter(yielded[k][j]) <=> j = Len(yielded[k])
    /\ \A j \in 1..Len(record) : ~IsDelimiter(record[j])

\* C8 witness: the handle is exhausted, two records were yielded and a
\* trailing partial record of two lines was left behind.
C8_Witness ==
    /\ ReaderDone
    /\ Len(yielded) = 2
    /\ Len(record) = 2

-----------------------------------------------------------------------------
(* KeggEnzyme: the object, parse() and make_record().                      *)

\* the 12 blank columns of a continuation line
BlankTag == Spaces(12)

\* the attributes KeggEnzyme.__init__ sets before it parses
NewEnzyme ==
    [id |-> <<>>, name |-> <<>>, obsolete |-> 0, classname |-> <<>>,
     sysname |-> <<>>, reaction |-> <<>>, rxnid |-> <<>>,
     allreactions |-> <<>>, substrate |-> <<>>, product |-> <<>>,
     comment |-> <<>>, pathway |-> <<>>, orthology |-> <<>>, genes |-> <<>>]

\* genes[organism] = value on a dict kept as a function
DictSet(d, k, v) == (k :> v) @@ d

\* the outcome of one line of a parse: the object, the bound field name,
\* the warnings emitted by the line, and what ended the loop ("" while it
\* runs, "return" at the delimiter, or the exception raised)
ParseOut(o, fn, w, e) == [obj |-> o, field_name |-> fn, warn |-> w, exit |-> e]

\* the elif chain of KeggEnzyme.parse for one line; a field name none of
\* the branches names falls through silently
EnzymeField(o, fn, value) ==
    IF fn = <<"E", "N", "T", "R", "Y">> THEN
        LET parts == Split(value)
        IN  IF Len(parts) < 2 THEN ParseOut(o, <<fn>>, <<>>, "IndexError")
            ELSE IF Len(parts) < 3
                 THEN ParseOut([o EXCEPT !.id = <<parts[2]>>], <<fn>>, <<>>,
                               "IndexError")
                 ELSE ParseOut([o EXCEPT !.id = <<parts[2]>>,
                                         !.obsolete = IF parts[3] = <<"O", "b", "s", "o", "l", "e", "t", "e">>
                                                      THEN 1 ELSE @],
                               <<fn>>, <<>>, "")
    ELSE IF fn = <<"N", "A", "M", "E">> THEN
        ParseOut([o EXCEPT !.name = Append(@, StripChars(value, {";"}))],
                 <<fn>>, <<>>, "")
    ELSE IF fn = <<"C", "L", "A", "S", "S">> THEN
        ParseOut([o EXCEPT !.classname = Append(@, StripChars(value, {";"}))],
                 <<fn>>, <<>>, "")
    ELSE IF fn = <<"S", "Y", "S", "N", "A", "M", "E">> THEN
        ParseOut([o EXCEPT !.sysname = <<value>>], <<fn>>, <<>>, "")
    ELSE IF fn = <<"R", "E", "A", "C", "T", "I", "O", "N">> THEN
        LET val == StripChars(value, {";"})
            start_pos == Find(val, <<"[", "R", "N", ":">>)
            id_list == Slice(val, start_pos + 4, -1)
        IN  ParseOut([o EXCEPT !.rxnid = IF start_pos >= 0
                                         THEN @ \o Split(id_list) ELSE @,
                               !.reaction = Append(@, val)],
                     <<fn>>, <<>>, "")
    ELSE IF fn = <<"A", "L", "L", "_", "R", "E", "A", "C">> THEN
        ParseOut([o EXCEPT !.allreactions = Append(@, StripChars(value, {";"}))],
                 <<fn>>, <<>>, "")
    ELSE IF fn = <<"S", "U", "B", "S", "T", "R", "A", "T", "E">> THEN
        ParseOut([o EXCEPT !.substrate = Append(@, StripChars(value, {";"}))],
                 <<fn>>, <<>>, "")
    ELSE IF fn = <<"P", "R", "O", "D", "U", "C", "T">> THEN
        ParseOut([o EXCEPT !.product = Append(@, StripChars(value, {";"}))],
                 <<fn>>, <<>>, "")
    ELSE IF fn = <<"C", "O", "M", "M", "E", "N", "T">> THEN
        ParseOut([o EXCEPT !.comment = Append(@, value)], <<fn>>, <<>>, "")
    ELSE IF fn = <<"P", "A", "T", "H", "W", "A", "Y">> THEN
        ParseOut([o EXCEPT !.pathway =
                      Append(@, <<Slice(value, 0, 7), Strip(From(value, 8))>>)],
                 <<fn>>, <<>>, "")
    ELSE IF fn = <<"O", "R", "T", "H", "O", "L", "O", "G", "Y">> THEN
        ParseOut([o EXCEPT !.orthology =
                      Append(@, <<Slice(value, 0, 6), Strip(From(value, 7))>>)],
                 <<fn>>, <<>>, "")
    ELSE IF fn = <<"G", "E", "N", "E", "S">> THEN
        LET pos == Find(value, <<":">>)
            organism == Lower(Slice(value, 0, pos))
        IN  ParseOut([o EXCEPT !.genes =
                          DictSet(@, organism, Split(From(value, pos + 2)))],
                     <<fn>>, <<>>, "")
    ELSE ParseOut(o, <<fn>>, <<>>, "")

\* the body of the loop with a field name taken from every line, the
\* lines with a blank prefix too
EnzymeParseLine_NoCarry(o, fname, line) ==
    IF IsDelimiter(line) THEN ParseOut(o, fname, <<>>, "return")
    ELSE EnzymeField(o, Strip(Slice(line, 0, 12)), Strip(From(line, 12)))

\* the body of `for line in record` in KeggEnzyme.parse, once; fname is
\* <<>> while the local field_name is unbound
EnzymeParseLine(o, fname, line) ==
    IF IsDelimiter(line) THEN ParseOut(o, fname, <<>>, "return")
    ELSE LET fn == IF Slice(line, 0, 12) # BlankTag
                   THEN <<Strip(Slice(line, 0, 12))>> ELSE fname
             value == Strip(From(line, 12))
         IN  IF fn = <<>> THEN ParseOut(o, fn, <<>>, "UnboundLocalError")
             ELSE EnzymeField(o, fn[1], value)

\* the lines make_record writes for a field whose lines but the last end
\* in ';' (NAME, CLASS, REACTION, ALL_REAC, SUBSTRATE, PRODUCT)
SemicolonField(tag, vals) ==
    IF Len(vals) = 0 THEN <<>>
    ELSE IF Len(vals) = 1 THEN <<tag \o vals[1]>>
    ELSE <<tag \o vals[1] \o <<";">>>>
         \o [i \in 1..(Len(vals) - 2) |-> BlankTag \o vals[i + 1] \o <<";">>]
         \o <<BlankTag \o vals[Len(vals)]>>

\* the lines make_record writes for a field of plain lines (COMMENT,
\* REFERENCE)
PlainField(tag, vals) ==
    [i \in 1..Len(vals) |-> (IF i = 1 THEN tag ELSE BlankTag) \o vals[i]]

\* PairField with one space between the id and the name
PairField_OneSpace(tag, vals) ==
    [i \in 1..Len(vals) |->
        (IF i = 1 THEN tag ELSE BlankTag) \o vals[i][1] \o <<" ">> \o vals[i][2]]

\* the lines make_record writes for a field of (id, name) pairs: the id,
\* two spaces, the name (PATHWAY, ORTHOLOGY, MODULE)
PairField(tag, vals) ==
    [i \in 1..Len(vals) |->
        (IF i = 1 THEN tag ELSE BlankTag) \o vals[i][1] \o <<" ", " ">> \o vals[i][2]]

\* the GENES lines of make_record: one line per organism code, codes sorted
GenesField(genes) ==
    LET keys == SortedStrs(DOMAIN genes)
    IN  [i \in 1..Len(keys) |->
            (IF i = 1 THEN <<"G", "E", "N", "E", "S", " ", " ", " ", " ", " ", " ", " ">> ELSE BlankTag)
            \o keys[i] \o <<":", " ">> \o Join(genes[keys[i]], <<" ">>)]

\* the column the suffix of an obsolete enzyme's ENTRY line is padded to
ObsoleteColumn == 30

\* the column the suffix of a current enzyme's ENTRY line is padded to
EnzymeColumn == 40

\* the ENTRY line of KeggEnzyme.make_record; range(pad) is empty for pad <= 0
EnzymeEntryLine(e) ==
    LET entry == <<"E", "N", "T", "R", "Y", " ", " ", " ", " ", " ", " ", " ", "E", "C", " ">> \o Format(e.id)
    IN  IF e.obsolete # 0
        THEN entry \o Spaces(Max(ObsoleteColumn - Len(entry), 0))
                   \o <<"O", "b", "s", "o", "l", "e", "t", "e", " ", " ", "E", "n", "z", "y", "m", "e">>
        ELSE entry \o Spaces(Max(EnzymeColumn - Len(entry), 0)) \o <<"E", "n", "z", "y", "m", "e">>

\* KeggEnzyme.make_record
EnzymeMakeRecord(e) ==
    <<EnzymeEntryLine(e)>>
    \o SemicolonField(<<"N", "A", "M", "E", " ", " ", " ", " ", " ", " ", " ", " ">>, e.name)
    \o SemicolonField(<<"C", "L", "A", "S", "S", " ", " ", " ", " ", " ", " ", " ">>, e.classname)
    \o (IF e.sysname # <<>> THEN <<<<"S", "Y", "S", "N", "A", "M", "E", " ", " ", " ", " ", " ">> \o e.sysname[1]>> ELSE <<>>)
    \o SemicolonField(<<"R", "E", "A", "C", "T", "I", "O", "N", " ", " ", " ", " ">>, e.reaction)
    \o SemicolonField(<<"A", "L", "L", "_", "R", "E", "A", "C", " ", " ", " ", " ">>, e.allreactions)
    \o SemicolonField(<<"S", "U", "B", "S", "T", "R", "A", "T", "E", " ", " ", " ">>, e.substrate)
    \o SemicolonField(<<"P", "R", "O", "D", "U", "C", "T", " ", " ", " ", " ", " ">>, e.product)
    \o PlainField(<<"C", "O", "M", "M", "E", "N", "T", " ", " ", " ", " ", " ">>, e.comment)
    \o PairField(<<"P", "A", "T", "H", "W", "A", "Y", " ", " ", " ", " ", " ">>, e.pathway)
    \o PairField(<<"O", "R", "T", "H", "O", "L", "O", "G", "Y", " ", " ", " ">>, e.orthology)
    \o GenesField(e.genes)
    \o <<TripleSlash>>

-----------------------------------------------------------------------------
(* SpecEnzyme: an enzyme is written by make_record() and the record is     *)
(* parsed by KeggEnzyme(record), or a record received from KEGG is parsed; *)
(* parse() runs one line per step.                                         *)

\* most values an enzyme or reaction of the inputs has in one list field
MaxValues == 2

\* the decimal digit j
Digit(j) == CodeOrder[Ord("0") + j]

\* an EC number n.n.n.n whose four numbers have the given numbers of digits
EcNumber(w) ==
    Join([k \in 1..4 |-> <<"1">> \o [i \in 1..(w[k] - 1) |-> "0"]], <<".">>)

\* EC numbers of 7, 14, 15, 24 and 25 characters
EnzymeIds ==
    { EcNumber(<<1, 1, 1, 1>>), EcNumber(<<3, 3, 3, 2>>), EcNumber(<<3, 3, 3, 3>>),
      EcNumber(<<6, 6, 6, 3>>), EcNumber(<<6, 6, 6, 4>>) }

\* the list fields of an enzyme
EnzymeLists ==
    {"name", "classname", "reaction", "allreactions", "substrate", "product",
     "comment", "pathway", "orthology", "genes"}

\* how many values each list field holds: all fields the same number k, or
\* one field j and the others k
Profiles(fields) ==
    {[f \in fields |-> IF f = g THEN j ELSE k] :
        g \in fields, j \in 0..MaxValues, k \in 0..MaxValues}

\* the j-th value of the enzyme inputs, per field
EnzymeValue(f, j) ==
    CASE f = "name" -> <<"n", Digit(j)>> \o <<" ", "x">>
      [] f = "classname" -> <<"c", Digit(j)>> \o <<";", "y">>
      [] f = "reaction" ->
            IF j % 2 = 1 THEN <<"r", Digit(j)>> \o <<" ", "[", "R", "N", ":", "R">> \o <<Digit(j)>> \o <<" ", "R", "0", "]">>
            ELSE <<"r", Digit(j)>>
      [] f = "allreactions" -> <<"a", Digit(j)>>
      [] f = "substrate" -> <<"s", Digit(j)>>
      [] f = "product" -> <<"p", Digit(j)>>
      [] f = "comment" -> <<"k", Digit(j)>> \o <<";">>
      [] f = "pathway" -> <<<<"e", "c", "0", "0", "0", "0">> \o <<Digit(j)>>, <<"w", Digit(j)>> \o <<" ", "x">>>>
      [] f = "orthology" -> <<<<"K", "0", "0", "0", "0">> \o <<Digit(j)>>, <<"o", Digit(j)>>>>

\* the reaction ids named by the first n reaction values
RECURSIVE EnzymeRxnIds(_)
EnzymeRxnIds(n) ==
    IF n = 0 THEN <<>>
    ELSE EnzymeRxnIds(n - 1)
         \o (IF n % 2 = 1 THEN <<<<"R", Digit(n)>>, <<"R", "0">>>> ELSE <<>>)

\* the gene dict with n organism codes
EnzymeGenes(n) ==
    [k \in {<<"h", Digit(j)>> : j \in 1..n} |-> <<<<"g", k[2]>>, <<"g", "0">>>>]

\* the enzyme with the given id, flag, sysname and numbers of values
EnzymeOf(id, obsolete, sysname, cnt) ==
    LET vals(f) == [j \in 1..cnt[f] |-> EnzymeValue(f, j)]
    IN  [id |-> <<id>>, name |-> vals("name"), obsolete |-> obsolete,
         classname |-> vals("classname"), sysname |-> sysname,
         reaction |-> vals("reaction"), rxnid |-> EnzymeRxnIds(cnt["reaction"]),
         allreactions |-> vals("allreactions"), substrate |-> vals("substrate"),
         product |-> vals("product"), comment |-> vals("comment"),
         pathway |-> vals("pathway"), orthology |-> vals("orthology"),
         genes |-> EnzymeGenes(cnt["genes"])]

\* the enzymes written
EnzymeInputs ==
    {EnzymeOf(id, obsolete, sysname, cnt) :
        id \in EnzymeIds, obsolete \in {0, 1},
        sysname \in {<<>>, <<<<"s", " ", "y">>>>}, cnt \in Profiles(EnzymeLists)}

\* a record of KEGG with a field KeggEnzyme.parse has no branch for
\* (HISTORY) after or before a field it knows (NAME)
EnzymeUnknownFieldRecords ==
    { <<<<"E", "N", "T", "R", "Y", " ", " ", " ", " ", " ", " ", " ", "E", "C", " ", "1", ".", "1", ".", "1", ".", "1", " ", " ", " ", " ", " ", " ", " ", " ", " ", " ", " ", " ", " ", " ", " ", " ", " ", "E", "n", "z", "y", "m", "e">>,
        <<"N", "A", "M", "E", " ", " ", " ", " ", " ", " ", " ", " ", "n", "1">>,
        <<"H", "I", "S", "T", "O", "R", "Y", " ", " ", " ", " ", " ", "h", "1">>,
        <<"/", "/", "/">>>>,
      <<<<"E", "N", "T", "R", "Y", " ", " ", " ", " ", " ", " ", " ", "E", "C", " ", "1", ".", "1", ".", "1", ".", "1", " ", " ", " ", " ", " ", " ", " ", " ", " ", " ", " ", " ", " ", " ", " ", " ", " ", "E", "n", "z", "y", "m", "e">>,
        <<"H", "I", "S", "T", "O", "R", "Y", " ", " ", " ", " ", " ", "h", "1">>,
        <<"N", "A", "M", "E", " ", " ", " ", " ", " ", " ", " ", " ", "n", "1">>,
        <<"/", "/", "/">>>> }

\* records of KEGG whose ENTRY value is 'EC <id>' alone, 'EC <id>' and
\* 'Enzyme', 'EC <id>' and 'Obsolete  Enzyme'
EnzymeEntryRecords ==
    { <<<<"E", "N", "T", "R", "Y", " ", " ", " ", " ", " ", " ", " ", "E", "C", " ", "1", ".", "1", ".", "1", ".", "1">>, <<"N", "A", "M", "E", " ", " ", " ", " ", " ", " ", " ", " ", "n", "1">>, <<"/", "/", "/">>>>,
      <<<<"E", "N", "T", "R", "Y", " ", " ", " ", " ", " ", " ", " ", "E", "C", " ", "1", ".", "1", ".", "1", ".", "1", " ", " ", " ", " ", " ", " ", " ", " ", " ", " ", " ", " ", " ", " ", " ", " ", " ", "E", "n", "z", "y", "m", "e">>, <<"N", "A", "M", "E", " ", " ", " ", " ", " ", " ", " ", " ", "n", "1">>,
        <<"/", "/", "/">>>>,
      <<<<"E", "N", "T", "R", "Y", " ", " ", " ", " ", " ", " ", " ", "E", "C", " ", "1", ".", "1", ".", "1", ".", "1", " ", " ", " ", " ", " ", " ", " ", "O", "b", "s", "o", "l", "e", "t", "e", " ", " ", "E", "n", "z", "y", "m", "e">>, <<"N", "A", "M", "E", " ", " ", " ", " ", " ", " ", " ", " ", "n", "1">>,
        <<"/", "/", "/">>>> }

\* the record of alcohol dehydrogenase, cut to three fields
EnzymeAdhRecord ==
    <<<<"E", "N", "T", "R", "Y", " ", " ", " ", " ", " ", " ", " ", "E", "C", " ", "1", ".", "1", ".", "1", ".", "1", " ", " ", " ", " ", " ", " ", " ", " ", " ", " ", " ", " ", " ", " ", " ", " ", " ", "E", "n", "z", "y", "m", "e">>,
      <<"N", "A", "M", "E", " ", " ", " ", " ", " ", " ", " ", " ", "a", "l", "c", "o", "h", "o", "l", " ", "d", "e", "h", "y", "d", "r", "o", "g", "e", "n", "a", "s", "e">>,
      <<"R", "E", "A", "C", "T", "I", "O", "N", " ", " ", " ", " ", "R", "0", "0", "7", "5", "4">>,
      <<"/", "/", "/">>>>

\* a record with semicolons at both ends of a name, two at the end of a
\* class, and a reaction whose [RN:...] bracket is followed by more text
EnzymeSemicolonRecord ==
    <<<<"E", "N", "T", "R", "Y", " ", " ", " ", " ", " ", " ", " ", "E", "C", " ", "1", ".", "1", ".", "1", ".", "2", " ", " ", " ", " ", " ", " ", " ", " ", " ", " ", " ", " ", " ", " ", " ", " ", " ", "E", "n", "z", "y", "m", "e">>,
      <<"N", "A", "M", "E", " ", " ", " ", " ", " ", " ", " ", " ", ";", "n", "1", ";">>,
      <<" ", " ", " ", " ", " ", " ", " ", " ", " ", " ", " ", " ", "n", "2">>,
      <<"C", "L", "A", "S", "S", " ", " ", " ", " ", " ", " ", " ", "c", "1", ";", ";">>,
      <<"R", "E", "A", "C", "T", "I", "O", "N", " ", " ", " ", " ", "a", " ", "=", " ", "b", " ", "[", "R", "N", ":", "R", "0", "0", "0", "0", "1", " ", "R", "0", "0", "0", "0", "2", "]", " ", "(", "o", "v", "e", "r", "a", "l", "l", ")">>,
      <<"/", "/", "/">>>>

\* the records received from KEGG
EnzymeRawRecords ==
    EnzymeUnknownFieldRecords \cup EnzymeEntryRecords
    \cup {EnzymeAdhRecord, EnzymeSemicolonRecord}

EntityInit(inputs) ==
    /\ ent \in {<<e>> : e \in inputs}
    /\ lines = <<>>
    /\ lpos = 1
    /\ field_name = <<>>
    /\ obj = <<>>
    /\ warnings = <<>>
    /\ pc = "new"
    /\ ReaderIdle
    /\ DbIdle
    /\ AuxIdle

\* the constructor is entered with the record `rec`: the attributes are
\* initialised and parse(record) starts
StartParse(rec, new) ==
    /\ lines' = rec
    /\ obj' = new
    /\ lpos' = 1
    /\ field_name' = <<>>
    /\ warnings' = <<>>
    /\ pc' = "parse"

\* one iteration of the loop of parse(), or its end when the record is
\* exhausted
ParseStep(out) ==
    /\ obj' = out.obj
    /\ field_name' = out.field_name
    /\ warnings' = warnings \o out.warn
    /\ lpos' = lpos + 1
    /\ pc' = IF out.exit = "" THEN "parse"
             ELSE IF out.exit = "return" THEN "returned" ELSE "raised"
    /\ raised' = IF out.exit \in {"", "return"} THEN "none" ELSE out.exit

EnzymeInit == EntityInit(EnzymeInputs)

\* KeggEnzyme(e.make_record())
EnzymeWrite ==
    /\ pc = "new"
    /\ StartParse(EnzymeMakeRecord(ent[1]), NewEnzyme)
    /\ UNCHANGED <<ent, readerVars, dbVars, auxVars>>

\* KeggEnzyme(record) for a record received from KEGG
EnzymeReceive ==
    /\ pc = "new"
    /\ \E rec \in EnzymeRawRecords : StartParse(rec, NewEnzyme)
    /\ ent' = <<>>
    /\ UNCHANGED <<readerVars, dbVars, auxVars>>

\* KeggEnzyme.parse, one line
EnzymeParseStep ==
    /\ pc = "parse"
    /\ ParseStep(IF lpos > Len(lines) THEN ParseOut(obj, field_name, <<>>, "return")
                 ELSE EnzymeParseLine(obj, field_name, lines[lpos]))
    /\ UNCHANGED <<ent, lines, readerVars, records, rdict, disk, code_to_id,
                   auxVars>>

EnzymeNext == EnzymeWrite \/ EnzymeReceive \/ EnzymeParseStep

SpecEnzyme == EnzymeInit /\ [][EnzymeNext]_vars

\* parse() has returned or raised
ParseEnded == pc \in {"returned", "raised"}

-----------------------------------------------------------------------------
(* Claims about the enzyme record.                                         *)

\* C1 (as claimed): for every enzyme e, whatever its id, KeggEnzyme(
\* e.make_record()) returns and the object equals e field for field.
C1_EnzymeRoundTrip ==
    (ParseEnded /\ ent # <<>>) => (pc = "returned" /\ obj = ent[1])

\* The round trip of the enzymes whose ENTRY line has room for a space
\* between the id and the suffix.
EnzymeRoundTripWithRoom ==
    (ParseEnded /\ ent # <<>>
        /\ Len(<<"E", "N", "T", "R", "Y", " ", " ", " ", " ", " ", " ", " ", "E", "C", " ">> \o Format(ent[1].id))
              < (IF ent[1].obsolete # 0 THEN ObsoleteColumn ELSE EnzymeColumn))
    => (pc = "returned" /\ obj = ent[1])

-----------------------------------------------------------------------------
(* KeggReaction: the object, parse() and make_record().                    *)

\* the fields of a KeggReaction after __init__ and before parse
NewReaction ==
    [id |-> <<>>, name |-> <<>>, definition |-> <<>>, equation |-> <<>>,
     remark |-> <<>>, comment |-> <<>>, rpair |-> <<>>, rclass |-> <<>>,
     enzyme |-> <<>>, pathway |-> <<>>, orthology |-> <<>>,
     reference |-> <<>>, module |-> <<>>]

\* warn('Skipping field {0} with value {1}'.format(field_name, value)),
\* kept as the two things the message names
SkipWarning(fn, value) == [field |-> fn, value |-> value]

\* the final else branch of KeggReaction.parse
ReactionUnknown(o, fn, value) ==
    ParseOut(o, <<fn>>, <<SkipWarning(fn, value)>>, "")

\* the (id, name) pair KeggReaction.parse takes from a MODULE value
ModulePair(value) == <<Slice(value, 0, 7), Strip(From(value, 9))>>

\* the elif chain of KeggReaction.parse for one line
ReactionField(o, fn, value) ==
    IF fn = <<"E", "N", "T", "R", "Y">> THEN
        LET parts == Split(value)
        IN  IF Len(parts) < 1 THEN ParseOut(o, <<fn>>, <<>>, "IndexError")
            ELSE ParseOut([o EXCEPT !.id = <<parts[1]>>], <<fn>>, <<>>, "")
    ELSE IF fn = <<"N", "A", "M", "E">> THEN
        ParseOut([o EXCEPT !.name = Append(@, StripChars(value, {";"}))],
                 <<fn>>, <<>>, "")
    ELSE IF fn = <<"D", "E", "F", "I", "N", "I", "T", "I", "O", "N">> THEN
        ParseOut([o EXCEPT !.definition = <<value>>], <<fn>>, <<>>, "")
    ELSE IF fn = <<"E", "Q", "U", "A", "T", "I", "O", "N">> THEN
        ParseOut([o EXCEPT !.equation = <<value>>], <<fn>>, <<>>, "")
    ELSE IF fn = <<"R", "E", "M", "A", "R", "K">> THEN
        ParseOut([o EXCEPT !.remark = <<value>>], <<fn>>, <<>>, "")
    ELSE IF fn = <<"C", "O", "M", "M", "E", "N", "T">> THEN
        ParseOut([o EXCEPT !.comment = Append(@, value)], <<fn>>, <<>>, "")
    ELSE IF fn = <<"R", "P", "A", "I", "R">> THEN
        ParseOut([o EXCEPT !.rpair = Append(@, Split(value))], <<fn>>, <<>>, "")
    ELSE IF fn = <<"R", "C", "L", "A", "S", "S">> THEN
        ParseOut([o EXCEPT !.rclass = Append(@, Split(value))], <<fn>>, <<>>, "")
    ELSE IF fn = <<"E", "N", "Z", "Y", "M", "E">> THEN
        ParseOut([o EXCEPT !.enzyme = @ \o Split(value)], <<fn>>, <<>>, "")
    ELSE IF fn = <<"P", "A", "T", "H", "W", "A", "Y">> THEN
        ParseOut([o EXCEPT !.pathway =
                      Append(@, <<Slice(value, 0, 7), Strip(From(value, 8))>>)],
                 <<fn>>, <<>>, "")
    ELSE IF fn = <<"O", "R", "T", "H", "O", "L", "O", "G", "Y">> THEN
        ParseOut([o EXCEPT !.orthology =
                      Append(@, <<Slice(value, 0, 6), Strip(From(value, 7))>>)],
                 <<fn>>, <<>>, "")
    ELSE IF fn = <<"R", "E", "F", "E", "R", "E", "N", "C", "E">> THEN
        ParseOut([o EXCEPT !.reference = Append(@, value)], <<fn>>, <<>>, "")
    ELSE IF fn = <<"M", "O", "D", "U", "L", "E">> THEN
        ParseOut([o EXCEPT !.module = Append(@, ModulePair(value))],
                 <<fn>>, <<>>, "")
    ELSE ReactionUnknown(o, fn, value)

\* the body of `for line in record` in KeggReaction.parse, once; fname is
\* <<>> while the local field_name is unbound
ReactionParseLine(o, fname, line) ==
    IF IsDelimiter(line) THEN ParseOut(o, fname, <<>>, "return")
    ELSE LET fn == IF Slice(line, 0, 12) # BlankTag
                   THEN <<Strip(Slice(line, 0, 12))>> ELSE fname
             value == Strip(From(line, 12))
         IN  IF fn = <<>> THEN ParseOut(o, fn, <<>>, "UnboundLocalError")
             ELSE ReactionField(o, fn[1], value)

\* the lines make_record writes for RPAIR and RCLASS: the first token, two
\* spaces, the other tokens joined by one space
TupleField(tag, vals) ==
    [i \in 1..Len(vals) |->
        (IF i = 1 THEN tag ELSE BlankTag) \o vals[i][1] \o <<" ", " ">>
            \o Join(From(vals[i], 1), <<" ">>)]

\* an optional text field of make_record: no line for None
OptionalField(tag, val) == IF val = <<>> THEN <<>> ELSE <<tag \o val[1]>>

\* KeggReaction.make_record
ReactionMakeRecord(r) ==
    <<<<"E", "N", "T", "R", "Y", " ", " ", " ", " ", " ", " ", " ">> \o Format(r.id) \o Spaces(22) \o <<"R", "e", "a", "c", "t", "i", "o", "n">>>>
    \o SemicolonField(<<"N", "A", "M", "E", " ", " ", " ", " ", " ", " ", " ", " ">>, r.name)
    \o OptionalField(<<"D", "E", "F", "I", "N", "I", "T", "I", "O", "N", " ", " ">>, r.definition)
    \o OptionalField(<<"E", "Q", "U", "A", "T", "I", "O", "N", " ", " ", " ", " ">>, r.equation)
    \o OptionalField(<<"R", "E", "M", "A", "R", "K", " ", " ", " ", " ", " ", " ">>, r.remark)
    \o PlainField(<<"C", "O", "M", "M", "E", "N", "T", " ", " ", " ", " ", " ">>, r.comment)
    \o TupleField(<<"R", "P", "A", "I", "R", " ", " ", " ", " ", " ", " ", " ">>, r.rpair)
    \o TupleField(<<"R", "C", "L", "A", "S", "S", " ", " ", " ", " ", " ", " ">>, r.rclass)
    \o (IF Len(r.enzyme) > 0
        THEN <<<<"E", "N", "Z", "Y", "M", "E", " ", " ", " ", " ", " ", " ">> \o Join(r.enzyme, Spaces(7))>> ELSE <<>>)
    \o PairField(<<"P", "A", "T", "H", "W", "A", "Y", " ", " ", " ", " ", " ">>, r.pathway)
    \o PairField(<<"O", "R", "T", "H", "O", "L", "O", "G", "Y", " ", " ", " ">>, r.orthology)
    \o PlainField(<<"R", "E", "F", "E", "R", "E", "N", "C", "E", " ", " ", " ">>, r.reference)
    \o PairField(<<"M", "O", "D", "U", "L", "E", " ", " ", " ", " ", " ", " ">>, r.module)
    \o <<<<"/", "/", "/">>>>

-----------------------------------------------------------------------------
(* SpecReaction: a reaction is written by make_record() and the record is  *)
(* parsed by KeggReaction(record), or a record received from KEGG is       *)
(* parsed; parse() runs one line per step.                                 *)

\* the list fields of a reaction
ReactionLists ==
    {"name", "comment", "rpair", "rclass", "enzyme", "pathway", "orthology",
     "reference", "module"}

\* The j-th value of the reaction inputs, per field.  The ids of pathway,
\* orthology and module pairs fill their id columns (7, 6 and 7
\* characters), as the ids parse() stores do whenever a name follows; a
\* module id is a KEGG M number with the blank that parse() keeps after it,
\* or seven characters without a blank.
ReactionValue(f, j) ==
    CASE f = "name" -> <<"n", Digit(j)>> \o <<" ", "x">>
      [] f = "comment" -> <<"k", Digit(j)>> \o <<";">>
      [] f = "rpair" ->
            IF j % 2 = 1 THEN <<<<"R", "P", "0", "0", "0", "0">> \o <<Digit(j)>>, <<"C", "1", "_", "C", "2">>, <<"m", "a", "i", "n">>>>
            ELSE <<<<"R", "P", "0", "0", "0", "0">> \o <<Digit(j)>>>>
      [] f = "rclass" -> <<<<"R", "C", "0", "0", "0", "0">> \o <<Digit(j)>>, <<"C", "1", "_", "C", "2">>>>
      [] f = "enzyme" -> <<"1", ".", "1", ".", "1", ".">> \o <<Digit(j)>>
      [] f = "pathway" -> <<<<"r", "n", "0", "0", "0", "0">> \o <<Digit(j)>>, <<"w", Digit(j)>> \o <<" ", "x">>>>
      [] f = "orthology" -> <<<<"K", "0", "0", "0", "0">> \o <<Digit(j)>>, <<"o", Digit(j)>>>>
      [] f = "reference" -> <<"f", Digit(j)>>
      [] f = "module" ->
            IF j % 2 = 1 THEN <<<<"M", "0", "0", "0", "0">> \o <<Digit(j)>> \o <<" ">>, <<"m", Digit(j)>>>>
            ELSE <<<<"M", "0", "0", "0", "0", "0">> \o <<Digit(j)>>, <<"m", Digit(j)>> \o <<" ", "x">>>>

\* the reaction with the given id, optional texts and numbers of values
ReactionOf(id, definition, equation, remark, cnt) ==
    LET vals(f) == [j \in 1..cnt[f] |-> ReactionValue(f, j)]
    IN  [id |-> <<id>>, name |-> vals("name"), definition |-> definition,
         equation |-> equation, remark |-> remark, comment |-> vals("comment"),
         rpair |-> vals("rpair"), rclass |-> vals("rclass"),
         enzyme |-> vals("enzyme"), pathway |-> vals("pathway"),
         orthology |-> vals("orthology"), reference |-> vals("reference"),
         module |-> vals("module")]

ReactionIds == { <<"R", "0", "0", "0", "0", "1">>, <<"R", "1">> }

\* the reactions written
ReactionInputs ==
    {ReactionOf(id, definition, equation, remark, cnt) :
        id \in ReactionIds,
        definition \in {<<>>, <<<<"A", " ", "+", " ", "B", " ", "<", "=", ">", " ", "C">>>>},
        equation \in {<<>>, <<<<"C", "1", " ", "+", " ", "C", "2", " ", "<", "=", ">", " ", "C", "3">>>>},
        remark \in {<<>>, <<<<"S", "a", "m", "e", " ", "a", "s", ":", " ", "R", "2">>>>},
        cnt \in Profiles(ReactionLists)}

\* a record of KEGG with a field KeggReaction.parse has no branch for
\* (DBLINKS) after or before a field it knows (NAME)
ReactionUnknownFieldRecords ==
    { <<<<"E", "N", "T", "R", "Y", " ", " ", " ", " ", " ", " ", " ", "R", "0", "0", "0", "0", "1", " ", " ", " ", " ", " ", " ", " ", " ", " ", " ", " ", " ", " ", " ", " ", " ", " ", " ", " ", " ", " ", " ", "R", "e", "a", "c", "t", "i", "o", "n">>,
        <<"N", "A", "M", "E", " ", " ", " ", " ", " ", " ", " ", " ", "n", "1">>,
        <<"D", "B", "L", "I", "N", "K", "S", " ", " ", " ", " ", " ", "h", "1">>,
        <<"/", "/", "/">>>>,
      <<<<"E", "N", "T", "R", "Y", " ", " ", " ", " ", " ", " ", " ", "R", "0", "0", "0", "0", "1", " ", " ", " ", " ", " ", " ", " ", " ", " ", " ", " ", " ", " ", " ", " ", " ", " ", " ", " ", " ", " ", " ", "R", "e", "a", "c", "t", "i", "o", "n">>,
        <<"D", "B", "L", "I", "N", "K", "S", " ", " ", " ", " ", " ", "h", "1">>,
        <<"N", "A", "M", "E", " ", " ", " ", " ", " ", " ", " ", " ", "n", "1">>,
        <<"/", "/", "/">>>> }

\* the records received from KEGG
ReactionRawRecords == ReactionUnknownFieldRecords

ReactionInit == EntityInit(ReactionInputs)

\* KeggReaction(r.make_record())
ReactionWrite ==
    /\ pc = "new"
    /\ StartParse(ReactionMakeRecord(ent[1]), NewReaction)
    /\ UNCHANGED <<ent, readerVars, dbVars, auxVars>>

\* KeggReaction(record) for a record received from KEGG
ReactionReceive ==
    /\ pc = "new"
    /\ \E rec \in ReactionRawRecords : StartParse(rec, NewReaction)
    /\ ent' = <<>>
    /\ UNCHANGED <<readerVars, dbVars, auxVars>>

\* KeggReaction.parse, one line
ReactionParseStep ==
    /\ pc = "parse"
    /\ ParseStep(IF lpos > Len(lines) THEN ParseOut(obj, field_name, <<>>, "return")
                 ELSE ReactionParseLine(obj, field_name, lines[lpos]))
    /\ UNCHANGED <<ent, lines, readerVars, records, rdict, disk, code_to_id,
                   auxVars>>

ReactionNext == ReactionWrite \/ ReactionReceive \/ ReactionParseStep

SpecReaction == ReactionInit /\ [][ReactionNext]_vars

-----------------------------------------------------------------------------
(* Claims about the reaction record and about unknown fields.              *)

C9_UnknownFieldWarnsOnce ==
    (ParseEnded /\ ent = <<>>
        /\ lines \in EnzymeUnknownFieldRecords \cup ReactionUnknownFieldRecords)
    => /\ pc = "returned"
       /\ obj.name = <<<<"n", "1">>>>
       /\ \/ obj = [NewEnzyme EXCEPT !.id = <<<<"1", ".", "1", ".", "1", ".", "1">>>>, !.name = <<<<"n", "1">>>>]
          \/ obj = [NewReaction EXCEPT !.id = <<<<"R", "0", "0", "0", "0", "1">>>>, !.name = <<<<"n", "1">>>>]
       /\ Len(warnings) = 1
       /\ warnings[1].field \in {<<"H", "I", "S", "T", "O", "R", "Y">>, <<"D", "B", "L", "I", "N", "K", "S">>}
       /\ warnings[1].value = <<"h", "1">>

-----------------------------------------------------------------------------
(* KeggReactionDatabase: the records are kept in a cobra DictList, a list  *)
(* (records) with an index from id to position (rdict); the file is a      *)
(* sequence of lines (disk).                                               *)

\* KeggReaction.parse from line i of the record on
RECURSIVE ReactionParseFrom(_, _, _, _)
ReactionParseFrom(o, fname, rec, i) ==
    IF i > Len(rec) THEN [obj |-> o, raised |-> "none"]
    ELSE LET out == ReactionParseLine(o, fname, rec[i])
         IN  IF out.exit = "return" THEN [obj |-> out.obj, raised |-> "none"]
             ELSE IF out.exit # "" THEN [obj |-> out.obj, raised |-> out.exit]
             ELSE ReactionParseFrom(out.obj, out.field_name, rec, i + 1)

\* KeggReaction(record)
ReactionParse(rec) == ReactionParseFrom(NewReaction, <<>>, rec, 1)

\* DictList.has_id
HasId(d, id) == id \in DOMAIN d

\* DictList.get_by_id, for an id the index holds
GetById(l, d, id) == l[d[id]]

\* DictList._replace_on_id
ReplaceOnId(l, d, x) == [l EXCEPT ![d[x.id]] = x]

\* the loop of DictList.extend over the items appended, from position i:
\* an id the index lacks is indexed, an id it holds raises ValueError and
\* the loop stops
RECURSIVE ExtendIndex(_, _, _)
ExtendIndex(l, d, i) ==
    IF i > Len(l) THEN [rdict |-> d, raised |-> "none"]
    ELSE IF ~HasId(d, l[i].id) THEN ExtendIndex(l, (l[i].id :> i) @@ d, i + 1)
    ELSE [rdict |-> d, raised |-> "ValueError"]

\* records += items (DictList.__iadd__, extend): the items are appended
\* to the list first and indexed one by one after that; the `undo` before
\* the ValueError rebinds a local name and leaves the list as extended
Extend(l, d, items) ==
    LET r == ExtendIndex(l \o items, d, Len(l) + 1)
    IN  [records |-> l \o items, rdict |-> r.rdict, raised |-> r.raised]

\* x goes before y in records.sort(): by id, as Python compares str
IdLess(x, y) == StrLess(x.id[1], y.id[1])

\* x put into the sorted list l after the records that are not greater
RECURSIVE SortInsert(_, _)
SortInsert(l, x) ==
    IF l = <<>> THEN <<x>>
    ELSE IF IdLess(x, Head(l)) THEN <<x>> \o l
    ELSE <<Head(l)>> \o SortInsert(Tail(l), x)

\* list.sort(key=id): stable
RECURSIVE SortById(_)
SortById(l) ==
    IF l = <<>> THEN <<>>
    ELSE SortInsert(SortById(SubSeq(l, 1, Len(l) - 1)), l[Len(l)])

\* DictList._generate_index: {v.id: k for k, v in enumerate(self)}
GenerateIndex(l) ==
    [id \in {l[i].id : i \in 1..Len(l)} |->
        CHOOSE i \in 1..Len(l) :
            /\ l[i].id = id
            /\ \A j \in (i + 1)..Len(l) : l[j].id # id]

\* the lines store() writes for the records: every line of every
\* make_record(), each with a newline
FileOf(l) ==
    LET recs == Flatten([i \in 1..Len(l) |-> ReactionMakeRecord(l[i])])
    IN  [k \in 1..Len(recs) |-> recs[k] \o <<"\n">>]

\* load() that adds each record to the list as soon as it is parsed: the
\* records before the one that fails to parse are in the list
LoadResult_Incremental(l, d, file) ==
    LET recs == GetRecords(file, <<>>)
        parsed == [i \in 1..Len(recs) |-> ReactionParse(recs[i])]
        bad == {i \in 1..Len(recs) : parsed[i].raised # "none"}
        first == CHOOSE i \in bad : \A j \in bad : i <= j
    IN  IF bad # {}
        THEN [Extend(l, d, [i \in 1..(first - 1) |-> parsed[i].obj])
                 EXCEPT !.raised = parsed[first].raised]
        ELSE Extend(l, d, [i \in 1..Len(recs) |-> parsed[i].obj])

\* load() on the list l with index d: every record of the file is parsed
\* before `self.records += reactions`, so a parse that raises leaves the
\* records alone
LoadResult(l, d, file) ==
    LET recs == GetRecords(file, <<>>)
        parsed == [i \in 1..Len(recs) |-> ReactionParse(recs[i])]
        bad == {i \in 1..Len(recs) : parsed[i].raised # "none"}
    IN  IF bad # {}
        THEN [records |-> l, rdict |-> d,
              raised |-> parsed[CHOOSE i \in bad : \A j \in bad : i <= j].raised]
        ELSE Extend(l, d, [i \in 1..Len(recs) |-> parsed[i].obj])

\* update() without the has_id test: the record is always added
UpdateResult_AlwaysAppend(l, d, x) == Extend(l, d, <<x>>)

\* update(reaction)
UpdateResult(l, d, x) ==
    IF HasId(d, x.id)
    THEN [records |-> ReplaceOnId(l, d, x), rdict |-> d, raised |-> "none"]
    ELSE Extend(l, d, <<x>>)

\* store() without records.sort()
StoreResult_NoSort(l, d) == [records |-> l, rdict |-> d, disk |-> FileOf(l)]

\* store(): records.sort() sorts the list in place and rebuilds the index,
\* then every record is written
StoreResult(l, d) ==
    LET s == SortById(l)
    IN  [records |-> s, rdict |-> GenerateIndex(s), disk |-> FileOf(s)]

-----------------------------------------------------------------------------
(* SpecDatabase: a client opens reaction databases on one file and calls   *)
(* load(), update() and store(); pc names the call made last, ent holds    *)
(* the argument of update(), raised the exception the call ended with.     *)

\* most records the list holds
MaxRecords == 4

\* the reaction with the given id and one name
DbReaction(id, name) == [NewReaction EXCEPT !.id = <<id>>, !.name = <<name>>]

\* the reactions a client passes to update(): three ids, whose order as
\* strings (R1 < R10 < R2) is not their order as numbers, and two
\* versions of R1
DbReactions ==
    { DbReaction(<<"R", "1">>, <<"a">>), DbReaction(<<"R", "1">>, <<"b">>),
      DbReaction(<<"R", "1", "0">>, <<"a">>), DbReaction(<<"R", "2">>, <<"a">>) }

\* the files a database is opened on: an empty file, a file out of order,
\* a file that repeats an id
DbFiles ==
    { FileOf(<<>>),
      FileOf(<<DbReaction(<<"R", "2">>, <<"a">>), DbReaction(<<"R", "1">>, <<"a">>)>>),
      FileOf(<<DbReaction(<<"R", "1">>, <<"a">>), DbReaction(<<"R", "1", "0">>, <<"a">>),
               DbReaction(<<"R", "1">>, <<"b">>)>>) }

DbInit ==
    /\ disk \in DbFiles
    /\ records = <<>>
    /\ rdict = <<>>
    /\ raised = "none"
    /\ code_to_id = <<>>
    /\ pc = "open"
    /\ ent = <<>>
    /\ lines = <<>> /\ lpos = 1 /\ field_name = <<>> /\ obj = <<>>
    /\ warnings = <<>>
    /\ ReaderIdle
    /\ AuxIdle

\* KeggReactionDatabase(filename): a fresh database on the same file
DbOpen ==
    /\ pc # "open"
    /\ records' = <<>>
    /\ rdict' = <<>>
    /\ raised' = "none"
    /\ pc' = "open"
    /\ ent' = <<>>
    /\ UNCHANGED <<disk, code_to_id, lines, lpos, field_name, obj, warnings,
                   readerVars, auxVars>>

\* load()
DbLoad ==
    /\ Len(records) + Len(GetRecords(disk, <<>>)) <= MaxRecords
    /\ LET r == LoadResult(records, rdict, disk)
       IN  /\ records' = r.records
           /\ rdict' = r.rdict
           /\ raised' = r.raised
    /\ pc' = "load"
    /\ ent' = <<>>
    /\ UNCHANGED <<disk, code_to_id, lines, lpos, field_name, obj, warnings,
                   readerVars, auxVars>>

\* update(x)
DbUpdate(x) ==
    /\ HasId(rdict, x.id) \/ Len(records) < MaxRecords
    /\ LET r == UpdateResult(records, rdict, x)
       IN  /\ records' = r.records
           /\ rdict' = r.rdict
           /\ raised' = r.raised
    /\ pc' = "update"
    /\ ent' = <<x>>
    /\ UNCHANGED <<disk, code_to_id, lines, lpos, field_name, obj, warnings,
                   readerVars, auxVars>>

\* store()
DbStore ==
    /\ LET r == StoreResult(records, rdict)
       IN  /\ records' = r.records
           /\ rdict' = r.rdict
           /\ disk' = r.disk
    /\ raised' = "none"
    /\ pc' = "store"
    /\ ent' = <<>>
    /\ UNCHANGED <<code_to_id, lines, lpos, field_name, obj, warnings,
                   readerVars, auxVars>>

DbNext ==
    \/ DbOpen
    \/ DbLoad
    \/ \E x \in DbReactions : DbUpdate(x)
    \/ DbStore

SpecDatabase == DbInit /\ [][DbNext]_vars

\* the ids of the records, in list order
Ids(l) == [i \in 1..Len(l) |-> l[i].id]

\* C6 (as claimed): after any sequence of load(), update() and store(),
\* whether the calls returned or raised, no two records share an id, and
\* has_id and get_by_id resolve the id of every record to that record.
C6_UniqueIds ==
    /\ \A i, j \in 1..Len(records) : records[i].id = records[j].id => i = j
    /\ \A i \in 1..Len(records) :
           /\ HasId(rdict, records[i].id)
           /\ GetById(records, rdict, records[i].id) = records[i]

\* C3 (as claimed): update(x) is an upsert keyed by id: when a record with
\* the id of x is in the database, x takes its position, the size and all
\* other positions stay; else x is appended and the size grows by one.
C3_UpdateIsUpsert ==
    [][\A x \in DbReactions :
        DbUpdate(x) =>
            IF \E i \in 1..Len(records) : records[i].id = x.id
            THEN \E i \in 1..Len(records) :
                     /\ records[i].id = x.id
                     /\ records' = [records EXCEPT ![i] = x]
            ELSE records' = Append(records, x)]_vars

\* C4: in every state reached by update(e), a second update(e) changes
\* nothing: the size, the order of the records and what get_by_id
\* returns for every id are the same after it.
C4_UpdateIdempotent ==
    pc = "update" =>
        LET r == UpdateResult(records, rdict, ent[1])
        IN  /\ r.raised = "none"
            /\ Len(r.records) = Len(records)
            /\ r.records = records
            /\ DOMAIN r.rdict = DOMAIN rdict
            /\ \A id \in DOMAIN rdict :
                   GetById(r.records, r.rdict, id) = GetById(records, rdict, id)

\* C4 witness: update(e) has replaced the first of several records by e,
\* the second version of R1.
C4_Witness ==
    /\ pc = "update"
    /\ Len(records) >= 2
    /\ ent[1] = DbReaction(<<"R", "1">>, <<"b">>)
    /\ records[1] = ent[1]

\* how many records of l have the id
IdCount(l, id) == Cardinality({i \in 1..Len(l) : l[i].id = id})

\* the ids of l never go down, as Python compares str
Ascending(l) ==
    \A i, j \in 1..Len(l) : i < j => ~StrLess(l[j].id[1], l[i].id[1])

\* C5: in every state reached by store(), load() on a fresh database gets
\* from the file the ids of the stored database, each as often as the
\* database holds it, in ascending order of the id as a string; when the
\* database holds no id twice the load returns and the fresh database
\* holds the records of the stored one in its order, indexed by id.
C5_StoreSortsFile ==
    pc = "store" =>
        \A fresh \in {LoadResult(<<>>, <<>>, disk)} :
            /\ \A x \in DbReactions :
                   IdCount(fresh.records, x.id) = IdCount(records, x.id)
            /\ Len(fresh.records) = Len(records)
            /\ Ascending(fresh.records)
            /\ (\A i, j \in 1..Len(records) :
                    records[i].id = records[j].id => i = j)
               => /\ fresh.raised = "none"
                  /\ fresh.records = records
                  /\ fresh.rdict = rdict

\* C5 witness: store() has written three records with three ids, and a
\* fresh load of the file returns them in the order R1, R10, R2.
C5_Witness ==
    /\ pc = "store"
    /\ Ids(LoadResult(<<>>, <<>>, disk).records)
         = << <<<<"R", "1">>>>, <<<<"R", "1", "0">>>>, <<<<"R", "2">>>> >>
    /\ Len(records) = 3

-----------------------------------------------------------------------------
(* KeggOrganism: one tab-separated line per record.                        *)

\* the fields of a KeggOrganism after __init__ and before parse
NewOrganism ==
    [id |-> <<>>, code |-> <<>>, name |-> <<>>, taxonomy |-> <<>>,
     otu_representative |-> 0, search_name |-> <<>>]

DecimalDigits == {"0", "1", "2", "3", "4", "5", "6", "7", "8", "9"}

\* the number a string of decimal digits writes
RECURSIVE DigitsValue(_)
DigitsValue(s) ==
    IF s = <<>> THEN 0
    ELSE 10 * DigitsValue(SubSeq(s, 1, Len(s) - 1))
         + (Ord(s[Len(s)]) - Ord("0"))

\* int(s): blanks around the number are dropped, a sign may lead; <<n>>,
\* or <<>> where int raises ValueError
ToInt(s) ==
    LET t == Strip(s)
        neg == t # <<>> /\ Head(t) = "-"
        u == IF t # <<>> /\ Head(t) \in {"-", "+"} THEN Tail(t) ELSE t
    IN  IF u = <<>> \/ \E i \in 1..Len(u) : u[i] \notin DecimalDigits
        THEN <<>>
        ELSE <<IF neg THEN 0 - DigitsValue(u) ELSE DigitsValue(u)>>

\* str(n)
RECURSIVE ToStr(_)
ToStr(n) ==
    IF n < 0 THEN <<"-">> \o ToStr(0 - n)
    ELSE IF n < 10 THEN <<Digit(n)>>
    ELSE ToStr(n \div 10) \o <<Digit(n % 10)>>

\* re.sub(paren_re, '', name) for paren_re = ' *\(.*\)$': a name that
\* ends in ')', before a final newline or not, loses everything from its
\* first '(' on, and the spaces right before it
SearchName(name) ==
    LET body == IF name # <<>> /\ name[Len(name)] = "\n"
                THEN SubSeq(name, 1, Len(name) - 1) ELSE name
        tail == IF body = name THEN <<>> ELSE <<"\n">>
        open == Find(body, <<"(">>)
    IN  IF body # <<>> /\ body[Len(body)] = ")" /\ open >= 0
           /\ \A i \in 1..Len(body) : body[i] # "\n"
        THEN RStrip(Slice(body, 0, open), {" "}) \o tail
        ELSE name

\* KeggOrganism(record): parse of one line
OrgParse(rec) ==
    LET fields == SplitOn(rec, "\t")
        n == Len(fields)
        o1 == IF n >= 1 THEN [NewOrganism EXCEPT !.id = <<fields[1]>>]
              ELSE NewOrganism
        o2 == IF n >= 2 THEN [o1 EXCEPT !.code = <<fields[2]>>] ELSE o1
        o3 == IF n >= 3 THEN [o2 EXCEPT !.name = <<fields[3]>>] ELSE o2
        o4 == IF n >= 4 THEN [o3 EXCEPT !.taxonomy = SplitOn(fields[4], ";")]
              ELSE o3
    IN  IF n < 5 THEN [obj |-> o4, raised |-> "IndexError"]
        ELSE IF ToInt(fields[5]) = <<>>
             THEN [obj |-> o4, raised |-> "ValueError"]
             ELSE [obj |-> [o4 EXCEPT !.otu_representative = ToInt(fields[5])[1],
                                      !.search_name = <<SearchName(fields[3])>>],
                   raised |-> "none"]

\* KeggOrganism.make_record: the one line of the record
OrgMakeRecord(o) ==
    <<Join(<<o.id[1], o.code[1], o.name[1], Join(o.taxonomy, <<";">>),
             ToStr(o.otu_representative)>>, <<"\t">>)>>

-----------------------------------------------------------------------------
(* KeggOrganismDatabase: the records of KeggDatabase and code_to_id, the   *)
(* index from organism code to id that load() rebuilds.                    *)

\* the lines KeggDatabase.store() writes: every line of every
\* make_record(), each with a newline
OrgFileOf(l) ==
    LET recs == Flatten([i \in 1..Len(l) |-> OrgMakeRecord(l[i])])
    IN  [k \in 1..Len(recs) |-> recs[k] \o <<"\n">>]

\* KeggDatabase.store() on organism records
OrgStoreResult(l, d) ==
    LET s == SortById(l)
    IN  [records |-> s, rdict |-> GenerateIndex(s), disk |-> OrgFileOf(s)]

\* the loop `code_to_id[records[index].code] = records[index].id` from
\* position i on
RECURSIVE CodeIndex(_, _, _)
CodeIndex(c2i, l, i) ==
    IF i > Len(l) THEN c2i
    ELSE CodeIndex((l[i].code :> l[i].id) @@ c2i, l, i + 1)

\* KeggOrganismDatabase.load(): every line of the file is parsed, the
\* organisms are added to the records, and the code index is rebuilt
\* when neither has raised
OrgLoadResult(l, d, c2i, file) ==
    LET parsed == [i \in 1..Len(file) |-> OrgParse(file[i])]
        bad == {i \in 1..Len(file) : parsed[i].raised # "none"}
        ext == Extend(l, d, [i \in 1..Len(file) |-> parsed[i].obj])
    IN  IF bad # {}
        THEN [records |-> l, rdict |-> d, code_to_id |-> c2i,
              raised |-> parsed[CHOOSE i \in bad : \A j \in bad : i <= j].raised]
        ELSE IF ext.raised # "none"
        THEN [records |-> ext.records, rdict |-> ext.rdict,
              code_to_id |-> c2i, raised |-> ext.raised]
        ELSE [records |-> ext.records, rdict |-> ext.rdict,
              code_to_id |-> CodeIndex(c2i, ext.records, 1), raised |-> "none"]

\* has_code
HasCode(c2i, code) == code \in DOMAIN c2i

\* get_by_code, for a code the index holds: <<organism>>, or <<>> where
\* get_by_id raises KeyError
GetByCode(l, d, c2i, code) ==
    IF HasId(d, c2i[code]) THEN <<GetById(l, d, c2i[code])>> ELSE <<>>

\* the organism a line of the organism file describes
Organism(id, code, name, taxonomy, otu) ==
    OrgParse(Join(<<id, code, name, taxonomy, otu>>, <<"\t">>)).obj

\* the organisms of the files and of update(): T1 and T2 share the code
\* eco, and T1 comes in a second version with another code
OrgEco == Organism(<<"T", "1">>, <<"e", "c", "o">>, <<"E", ".", " ", "c", "o", "l", "i", " ", "(", "K", "-", "1", "2", ")">>, <<"P", "r", "o", "k", "a", "r", "y", "o", "t", "e", "s", ";", "B", "a", "c", "t", "e", "r", "i", "a">>, <<"0">>)
OrgEco2 == Organism(<<"T", "2">>, <<"e", "c", "o">>, <<"E", ".", " ", "c", "o", "l", "i", " ", "O", "1", "5", "7">>, <<"P", "r", "o", "k", "a", "r", "y", "o", "t", "e", "s", ";", "B", "a", "c", "t", "e", "r", "i", "a">>, <<"1">>)
OrgHsa == Organism(<<"T", "1", "0">>, <<"h", "s", "a">>, <<"H", ".", " ", "s", "a", "p", "i", "e", "n", "s", " ", "(", "h", "u", "m", "a", "n", ")">>, <<"E", "u", "k", "a", "r", "y", "o", "t", "e", "s", ";", "A", "n", "i", "m", "a", "l", "s">>, <<"0">>)
OrgEcx == Organism(<<"T", "1">>, <<"e", "c", "x">>, <<"E", ".", " ", "c", "o", "l", "i", " ", "(", "K", "-", "1", "2", ")">>, <<"P", "r", "o", "k", "a", "r", "y", "o", "t", "e", "s", ";", "B", "a", "c", "t", "e", "r", "i", "a">>, <<"1">>)

Organisms == {OrgEco, OrgEco2, OrgHsa, OrgEcx}

\* the files an organism database is opened on: an empty file, a file
\* out of order, a file with one code on two organisms, a file whose
\* second line lacks the last field
OrgFiles ==
    { OrgFileOf(<<>>),
      OrgFileOf(<<OrgHsa, OrgEco>>),
      OrgFileOf(<<OrgEco, OrgEco2>>),
      OrgFileOf(<<OrgHsa>>) \o <<<<"T", "2">> \o <<"\t">> \o <<"e", "c", "o">> \o <<"\t">>
                                 \o <<"E", ".", " ", "c", "o", "l", "i">> \o <<"\t">> \o <<"P", "r", "o", "k", "a", "r", "y", "o", "t", "e", "s">>
                                 \o <<"\n">>>> }

\* most organisms the list holds
MaxOrganisms == 3

OrgInit ==
    /\ disk \in OrgFiles
    /\ records = <<>>
    /\ rdict = <<>>
    /\ raised = "none"
    /\ code_to_id = <<>>
    /\ pc = "open"
    /\ ent = <<>>
    /\ lines = <<>> /\ lpos = 1 /\ field_name = <<>> /\ obj = <<>>
    /\ warnings = <<>>
    /\ ReaderIdle
    /\ AuxIdle

\* KeggOrganismDatabase(filename): a fresh database on the same file
OrgOpen ==
    /\ pc # "open"
    /\ records' = <<>>
    /\ rdict' = <<>>
    /\ code_to_id' = <<>>
    /\ raised' = "none"
    /\ pc' = "open"
    /\ ent' = <<>>
    /\ UNCHANGED <<disk, lines, lpos, field_name, obj, warnings, readerVars,
                   auxVars>>

\* load()
OrgLoad ==
    /\ Len(records) + Len(disk) <= MaxOrganisms
    /\ LET r == OrgLoadResult(records, rdict, code_to_id, disk)
       IN  /\ records' = r.records
           /\ rdict' = r.rdict
           /\ code_to_id' = r.code_to_id
           /\ raised' = r.raised
    /\ pc' = "load"
    /\ ent' = <<>>
    /\ UNCHANGED <<disk, lines, lpos, field_name, obj, warnings, readerVars,
                   auxVars>>

\* update(x) that also enters the code of x into the code index
OrgUpdate_Reindex(x) ==
    /\ HasId(rdict, x.id) \/ Len(records) < MaxOrganisms
    /\ LET r == UpdateResult(records, rdict, x)
       IN  /\ records' = r.records
           /\ rdict' = r.rdict
           /\ raised' = r.raised
    /\ code_to_id' = (x.code :> x.id) @@ code_to_id
    /\ pc' = "update"
    /\ ent' = <<x>>
    /\ UNCHANGED <<disk, lines, lpos, field_name, obj, warnings, readerVars,
                   auxVars>>

\* update(x), as KeggDatabase defines it: the code index is not touched
OrgUpdate(x) ==
    /\ HasId(rdict, x.id) \/ Len(records) < MaxOrganisms
    /\ LET r == UpdateResult(records, rdict, x)
       IN  /\ records' = r.records
           /\ rdict' = r.rdict
           /\ raised' = r.raised
    /\ pc' = "update"
    /\ ent' = <<x>>
    /\ UNCHANGED <<disk, code_to_id, lines, lpos, field_name, obj, warnings,
                   readerVars, auxVars>>

\* store(), as KeggDatabase defines it
OrgStore ==
    /\ LET r == OrgStoreResult(records, rdict)
       IN  /\ records' = r.records
           /\ rdict' = r.rdict
           /\ disk' = r.disk
    /\ raised' = "none"
    /\ pc' = "store"
    /\ ent' = <<>>
    /\ UNCHANGED <<code_to_id, lines, lpos, field_name, obj, warnings,
                   readerVars, auxVars>>

\* C10 (as claimed): in every state reached by a load() that returned,
\* also of a file with two organisms of one code, every organism o of the
\* database has has_code(o.code), and get_by_code(o.code) returns o.
C10_CodeIndexConsistent ==
    (pc = "load" /\ raised = "none") =>
        \A i \in 1..Len(records) :
            /\ HasCode(code_to_id, records[i].code)
            /\ GetByCode(records, rdict, code_to_id, records[i].code)
                 = <<records[i]>>

-----------------------------------------------------------------------------
(* kegg.py: requests to the KEGG web service.                              *)

\* text.split('\n'): the pieces between the newlines of the text, the
\* one after the last newline included
SplitLines(text) ==
    LET nl == {i \in 1..Len(text) : text[i] = "\n"}
        at(k) == IF k = 0 THEN 0
                 ELSE IF k > Cardinality(nl) THEN Len(text) + 1
                 ELSE CHOOSE i \in nl : Cardinality({j \in nl : j < i}) = k - 1
    IN  [k \in 1..(Cardinality(nl) + 1) |->
            SubSeq(text, at(k - 1) + 1, at(k) - 1)]

\* requests.codes.OK
StatusOK == 200

\* response.raise_for_status(): HTTPError for a 4xx or 5xx status
RaiseForStatus(status) ==
    IF status >= 400 /\ status < 600 THEN "HTTPError" ELSE "none"

\* _kegg_request without the second status test: a status that
\* raise_for_status lets pass is taken as a success
KeggRequest_NoQueryError(resp, res) ==
    IF resp.status_code # StatusOK /\ RaiseForStatus(resp.status_code) # "none"
    THEN [result |-> <<>>, raised |-> RaiseForStatus(resp.status_code)]
    ELSE LET parts == SplitLines(resp.text)
         IN  [result |-> res \o SubSeq(parts, 1, Len(parts) - 1),
              raised |-> "none"]

\* _kegg_request(url, result) for the response the service gives: the
\* result extended by the lines of the response text, or the exception
KeggRequest(resp, res) ==
    IF resp.status_code # StatusOK /\ RaiseForStatus(resp.status_code) # "none"
    THEN [result |-> <<>>, raised |-> RaiseForStatus(resp.status_code)]
    ELSE IF resp.status_code # 200
    THEN [result |-> <<>>, raised |-> "QueryError"]
    ELSE LET parts == SplitLines(resp.text)
         IN  [result |-> res \o SubSeq(parts, 1, Len(parts) - 1),
              raised |-> "none"]

\* the status codes the service answers with: success, a 2xx and a 3xx
\* that raise_for_status lets pass, a client and a server error
Statuses == {200, 204, 304, 404, 500}

\* the text of a response with the given lines
TextOf(ls) == Flatten([i \in 1..Len(ls) |-> ls[i] \o <<"\n">>])

-----------------------------------------------------------------------------
(* KeggOrganismDatabase.download and the calls of a client of the          *)
(* organism database.                                                      *)

\* most requests sent to the web service
MaxRequests == 1

\* the request of list_kegg_ids('organism')
ListOrganismRequest == <<"l", "i", "s", "t", "/", "o", "r", "g", "a", "n", "i", "s", "m">>

\* the line `list organism` gives for an organism: no OTU field
OrgListLine(o) ==
    Join(<<o.id[1], o.code[1], o.name[1], Join(o.taxonomy, <<";">>)>>, <<"\t">>)

\* what the web service may hold: two organisms, one organism, two
\* records with one id
OrgRemoteLists ==
    { <<OrgListLine(OrgEco), OrgListLine(OrgHsa)>>,
      <<OrgListLine(OrgEco2)>>,
      <<OrgListLine(OrgEco), OrgListLine(OrgEcx)>> }

\* the responses to the request
OrgResponses ==
    {[status_code |-> st, text |-> TextOf(ls)] :
        st \in Statuses, ls \in OrgRemoteLists}

\* the rest of load() and download() once the records are parsed: a parse
\* that raised ends the call, else the organisms are added and, when that
\* has not raised, the code index is written for every record
OrgAddAll(l, d, c2i, parsed) ==
    LET bad == {i \in 1..Len(parsed) : parsed[i].raised # "none"}
        ext == Extend(l, d, [i \in 1..Len(parsed) |-> parsed[i].obj])
    IN  IF bad # {}
        THEN [records |-> l, rdict |-> d, code_to_id |-> c2i,
              raised |-> parsed[CHOOSE i \in bad : \A j \in bad : i <= j].raised]
        ELSE IF ext.raised # "none"
        THEN [records |-> ext.records, rdict |-> ext.rdict,
              code_to_id |-> c2i, raised |-> ext.raised]
        ELSE [records |-> ext.records, rdict |-> ext.rdict,
              code_to_id |-> CodeIndex(c2i, ext.records, 1), raised |-> "none"]

\* the part of download() after the test of the database: the request,
\* then every line with '\t0' added is parsed and the organisms are added
OrgDownloadFetch(l, d, c2i, resp) ==
    LET req == KeggRequest(resp, <<>>)
        parsed == [i \in 1..Len(req.result) |->
                      OrgParse(req.result[i] \o <<"\t", "0">>)]
    IN  IF req.raised # "none"
        THEN [records |-> l, rdict |-> d, code_to_id |-> c2i,
              raised |-> req.raised, requested |-> TRUE]
        ELSE OrgAddAll(l, d, c2i, parsed) @@ [requested |-> TRUE]

\* download() without the test that the database is empty
OrgDownloadResult_NoTest(l, d, c2i, resp) == OrgDownloadFetch(l, d, c2i, resp)

\* download()
OrgDownloadResult(l, d, c2i, resp) ==
    IF Len(l) > 0
    THEN [records |-> l, rdict |-> d, code_to_id |-> c2i,
          raised |-> "DatabaseError", requested |-> FALSE]
    ELSE OrgDownloadFetch(l, d, c2i, resp)

\* download(), for the response the web service gives if asked; the
\* response plays no part when the database holds a record
OrgDownload ==
    /\ Len(records) > 0 \/ Len(sent) < MaxRequests
    /\ \E resp \in IF Len(records) > 0
                    THEN {[status_code |-> StatusOK, text |-> <<>>]}
                    ELSE OrgResponses :
        LET r == OrgDownloadResult(records, rdict, code_to_id, resp)
        IN  /\ Len(r.records) <= MaxOrganisms
            /\ records' = r.records
            /\ rdict' = r.rdict
            /\ code_to_id' = r.code_to_id
            /\ raised' = r.raised
            /\ sent' = IF r.requested THEN Append(sent, ListOrganismRequest)
                       ELSE sent
    /\ pc' = "download"
    /\ ent' = <<>>
    /\ UNCHANGED <<disk, lines, lpos, field_name, obj, warnings, readerVars,
                   kegg_args, start, end, counter, result, otuVars,
                   trVars>>

\* the codes of the organisms in the database
CodesOf(l) == {l[i].code : i \in 1..Len(l)}

\* C11 (as claimed): in every state reached by a load() or a download()
\* that returned, whatever calls came before, the keys of the code index
\* are exactly the codes of the organisms in the database, and every key
\* maps to the id of an organism that carries the code.
C11_CodeIndexRebuilt ==
    (pc \in {"load", "download"} /\ raised = "none") =>
        /\ DOMAIN code_to_id = CodesOf(records)
        /\ \A c \in DOMAIN code_to_id :
               \E i \in 1..Len(records) :
                   records[i].code = c /\ records[i].id = code_to_id[c]

\* C12: update(o) leaves the code index as it was.  If the id of o is new,
\* has_code(o.code) answers as before the call (False when it was False).
\* If o replaces the record of its id T, which carried another code that
\* the index resolved to T, has_code of the old code is still True and
\* get_by_code of the old code returns o, the record now stored under T.
C12_UpdateKeepsCodeIndex ==
    [][pc' = "update" =>
        LET o == ent'[1]
        IN  /\ code_to_id' = code_to_id
            /\ ~HasId(rdict, o.id) =>
                   (HasCode(code_to_id', o.code) <=> HasCode(code_to_id, o.code))
            /\ HasId(rdict, o.id) =>
                   LET old == GetById(records, rdict, o.id)
                   IN  (/\ old.code # o.code
                        /\ HasCode(code_to_id, old.code)
                        /\ code_to_id[old.code] = o.id)
                       => /\ HasCode(code_to_id', old.code)
                          /\ GetByCode(records', rdict', code_to_id', old.code)
                               = <<o>>]_vars

\* C12 witness: update() has replaced T1, loaded with the code eco, by a
\* record with the code ecx: eco still resolves, to the new record, and
\* ecx is not in the index.
C12_Witness ==
    /\ pc = "update"
    /\ ent = <<OrgEcx>>
    /\ HasCode(code_to_id, OrgEco.code)
    /\ GetByCode(records, rdict, code_to_id, OrgEco.code) = <<OrgEcx>>
    /\ ~HasCode(code_to_id, OrgEcx.code)

\* C13: download() on a database that holds a record raises DatabaseError,
\* sends no request and leaves the records, their order, their index and
\* the code index as they were; a download() on an empty database that
\* returns stores every organism of the response with
\* otu_representative = 0.
C13_DownloadNeedsEmpty ==
    [][pc' = "download" =>
        IF Len(records) > 0
        THEN /\ raised' = "DatabaseError"
             /\ sent' = sent
             /\ records' = records
             /\ rdict' = rdict
             /\ code_to_id' = code_to_id
        ELSE /\ sent' = Append(sent, ListOrganismRequest)
             /\ raised' = "none" =>
                    /\ Len(records') > 0
                    /\ \A i \in 1..Len(records') :
                           records'[i].otu_representative = 0]_vars

\* C13 witness: a download() has filled the database and a later
\* download() has raised DatabaseError.
C13_Witness ==
    /\ pc = "download"
    /\ raised = "DatabaseError"
    /\ sent = <<ListOrganismRequest>>
    /\ Len(records) = 2
    /\ \A i \in 1..Len(records) : records[i].otu_representative = 0

OrgNext ==
    \/ OrgOpen
    \/ OrgLoad
    \/ \E x \in Organisms : OrgUpdate(x)
    \/ OrgStore
    \/ OrgDownload

SpecOrganism == OrgInit /\ [][OrgNext]_vars

-----------------------------------------------------------------------------
(* SpecKegg: one call of get_kegg_records or list_kegg_ids; the loop of    *)
(* get_kegg_records runs one batch per step, and the web service answers   *)
(* every request with a status code of its choice.                         *)

\* most ids in the id_list of a call
MaxIds == 21

\* `increment`: the web service limits the size of the query to 10 items
Increment == 10

\* kegg_url
KeggUrl == <<"h", "t", "t", "p", ":", "/", "/", "r", "e", "s", "t", ".", "k", "e", "g", "g", ".", "j", "p", "/">>

\* the k-th id a caller asks for
KeggId(k) == <<"R", "0", "0", "0">> \o <<Digit(k \div 10), Digit(k % 10)>>

\* the arguments of get_kegg_records: a database name, an id list of 0 to
\* MaxIds ids, an option or None
KeggCalls ==
    {[db_name |-> <<"r", "n">>, id_list |-> [k \in 1..n |-> KeggId(k)],
      option |-> opt] :
        n \in 0..MaxIds, opt \in {<<>>, <<<<"a", "a", "s", "e", "q">>>>}}

\* the query string with range(start, end + 1) for range(start, end)
RECURSIVE KeggQuery_Inclusive(_, _, _, _)
KeggQuery_Inclusive(db, ids, from, to) ==
    IF from >= to + 1 \/ from >= Len(ids) THEN <<>>
    ELSE db \o <<":">> \o ids[from + 1] \o <<"+">>
         \o KeggQuery_Inclusive(db, ids, from + 1, to)

\* the query string built for the ids at the 0-based positions
\* start..end-1: db_name:id and a '+' for each
RECURSIVE KeggQuery(_, _, _, _)
KeggQuery(db, ids, from, to) ==
    IF from >= to \/ from >= Len(ids) THEN <<>>
    ELSE db \o <<":">> \o ids[from + 1] \o <<"+">>
         \o KeggQuery(db, ids, from + 1, to)

\* the url of a batch: the query without its trailing '+', and the option
KeggGetUrl(args, from, to) ==
    LET query == KeggQuery(args.db_name, args.id_list, from, to)
    IN  KeggUrl \o <<"g", "e", "t", "/">> \o Slice(query, 0, -1)
        \o (IF args.option # <<>> THEN <<"/">> \o args.option[1] ELSE <<>>)

\* the record the web service holds for an id: its ENTRY line and the
\* line that ends the record
KeggRecordOf(id) == <<<<"E", "N", "T", "R", "Y", " ", " ", " ", " ", " ", " ", " ">> \o id \o <<" ", " ", "R", "e", "a", "c", "t", "i", "o", "n">>, <<"/", "/", "/">>>>

\* the lines of the records of the given ids, in order
KeggRecordLines(ids) == Flatten([k \in 1..Len(ids) |-> KeggRecordOf(ids[k])])

\* what the web service answers to a request for the given ids with the
\* given status: the record of each id on success, an empty text
\* otherwise
KeggResponse(status, ids) ==
    [status_code |-> status,
     text |-> IF status = StatusOK THEN TextOf(KeggRecordLines(ids)) ELSE <<>>]

\* the loop of get_kegg_reactions over record_list from the 0-based
\* position index on: every line equal to '///' ends a record, which is
\* made a KeggReaction
RECURSIVE KeggReactionsFrom(_, _, _)
KeggReactionsFrom(record_list, from, index) ==
    IF index >= Len(record_list) THEN <<>>
    ELSE IF record_list[index + 1] = <<"/", "/", "/">>
    THEN <<ReactionParse(Slice(record_list, from, index + 1))>>
         \o KeggReactionsFrom(record_list, index + 1, index + 1)
    ELSE KeggReactionsFrom(record_list, from, index + 1)

KeggInit ==
    /\ kegg_args = <<>>
    /\ start = 0
    /\ end = 0
    /\ counter = 0
    /\ result = <<>>
    /\ sent = <<>>
    /\ raised = "none"
    /\ ReaderIdle
    /\ EntityIdle
    /\ records = <<>> /\ rdict = <<>> /\ disk = <<>> /\ code_to_id = <<>>
    /\ OtuIdle
    /\ TranslateIdle

\* get_kegg_records(db_name, id_list, option) up to the while loop
KeggGetRecords ==
    /\ pc = "idle"
    /\ \E args \in KeggCalls :
        /\ kegg_args' = args
        /\ end' = IF Len(args.id_list) > Increment THEN 0 + Increment
                  ELSE Len(args.id_list)
        /\ counter' = Len(args.id_list)
    /\ start' = 0
    /\ result' = <<>>
    /\ pc' = "loop"
    /\ UNCHANGED <<sent, raised, readerVars, ent, lines, lpos, field_name, obj,
                   warnings, records, rdict, disk, code_to_id, otuVars, trVars>>

\* one iteration of `while counter > 0`: the query is built, start, end
\* and counter move on, and the request is sent
KeggBatch ==
    /\ pc = "loop"
    /\ counter > 0
    /\ LET n == Len(kegg_args.id_list)
           url == KeggGetUrl(kegg_args, start, end)
           ids == SubSeq(kegg_args.id_list, start + 1, end)
       IN  /\ start' = start + Increment
           /\ end' = IF end + Increment > n THEN n ELSE end + Increment
           /\ counter' = counter - Increment
           /\ \E status \in Statuses :
                LET r == KeggRequest(KeggResponse(status, ids), result)
                IN  /\ sent' = Append(sent, [url |-> url, status_code |-> status])
                    /\ result' = r.result
                    /\ raised' = r.raised
                    /\ pc' = IF r.raised = "none" THEN "loop" ELSE "raised"
    /\ UNCHANGED <<kegg_args, readerVars, ent, lines, lpos, field_name, obj,
                   warnings, records, rdict, disk, code_to_id, otuVars, trVars>>

\* `return result` of get_kegg_records
KeggReturn ==
    /\ pc = "loop"
    /\ counter <= 0
    /\ pc' = "returned"
    /\ UNCHANGED <<keggVars, raised, readerVars, ent, lines, lpos, field_name,
                   obj, warnings, records, rdict, disk, code_to_id, otuVars,
                   trVars>>

\* list_kegg_ids(db_name)
KeggListIds ==
    /\ pc = "idle"
    /\ \E db \in {<<"r", "n">>, <<"x", "x">>}, status \in Statuses, n \in 0..2 :
        LET r == KeggRequest(KeggResponse(status, [k \in 1..n |-> KeggId(k)]),
                             <<>>)
        IN  /\ kegg_args' = [db_name |-> db, id_list |-> <<>>, option |-> <<>>]
            /\ sent' = Append(sent, [url |-> KeggUrl \o <<"l", "i", "s", "t", "/">> \o db,
                                     status_code |-> status])
            /\ result' = r.result
            /\ raised' = r.raised
            /\ pc' = IF r.raised = "none" THEN "returned" ELSE "raised"
    /\ UNCHANGED <<start, end, counter, readerVars, ent, lines, lpos,
                   field_name, obj, warnings, records, rdict, disk, code_to_id,
                   otuVars, trVars>>

\* the rest of get_kegg_reactions(id_list) once its call
\* get_kegg_records('rn', id_list) has returned: the reactions of the
\* records, or the exception of the first record that fails to parse
KeggGetReactions ==
    /\ pc = "returned"
    /\ kegg_args.db_name = <<"r", "n">>
    /\ kegg_args.option = <<>>
    /\ \A i \in 1..Len(sent) : StartsWith(sent[i].url, KeggUrl \o <<"g", "e", "t", "/">>)
    /\ LET parsed == KeggReactionsFrom(result, 0, 0)
           bad == {i \in 1..Len(parsed) : parsed[i].raised # "none"}
       IN  IF bad = {}
           THEN /\ records' = [i \in 1..Len(parsed) |-> parsed[i].obj]
                /\ raised' = "none"
                /\ pc' = "reactions"
           ELSE /\ records' = <<>>
                /\ raised' = parsed[CHOOSE i \in bad : \A j \in bad : i <= j].raised
                /\ pc' = "raised"
    /\ UNCHANGED <<keggVars, readerVars, ent, lines, lpos, field_name, obj,
                   warnings, rdict, disk, code_to_id, otuVars, trVars>>

KeggNext ==
    \/ KeggGetRecords
    \/ KeggBatch
    \/ KeggReturn
    \/ KeggListIds
    \/ KeggGetReactions

SpecKegg == KeggInit /\ [][KeggNext]_vars

\* C14: as soon as a request of get_kegg_records (any batch) or of
\* list_kegg_ids is answered with a status other than 200, the call has
\* raised HTTPError or QueryError: that request is the last one sent, the
\* call never returns, and no line is handed back, also none of the
\* batches answered before.
C14_FailedStatusAborts ==
    \A i \in 1..Len(sent) :
        sent[i].status_code # 200 =>
            /\ pc = "raised"
            /\ raised \in {"HTTPError", "QueryError"}
            /\ i = Len(sent)
            /\ result = <<>>

\* C14 witness: of a call for more than 20 ids the first batch was
\* answered with 200 and the second with 204; the call raised QueryError
\* with the third batch unsent.
C14_Witness ==
    /\ pc = "raised"
    /\ raised = "QueryError"
    /\ Len(kegg_args.id_list) > 2 * Increment
    /\ Len(sent) = 2
    /\ sent[1].status_code = 200
    /\ sent[2].status_code = 204


-----------------------------------------------------------------------------
(* KeggOrganismDatabase.set_representatives: the OTU representatives of an *)
(* OTU file are matched to the prokaryotes of the database by name.        *)

MATCH_CUTOFF == 97

\* s.replace(old, new)
RECURSIVE Replace(_, _, _)
Replace(s, old, new) ==
    LET k == Find(s, old)
    IN  IF k < 0 THEN s
        ELSE Slice(s, 0, k) \o new \o Replace(From(s, k + Len(old)), old, new)

\* the elements of a sequence
Range(s) == {s[i] : i \in 1..Len(s)}

\* the `representatives` dict after the lines i.. of the OTU file: its
\* keys in the order they were entered (names) and its values (ids);
\* IndexError for a line with too few fields
RECURSIVE OtuRepresentatives(_, _, _)
OtuRepresentatives(file, i, reps) ==
    IF i > Len(file) THEN [names |-> reps.names, ids |-> reps.ids,
                           raised |-> "none"]
    ELSE LET fields == SplitOn(Strip(file[i]), "\t")
         IN  IF Len(fields) < 2
             THEN [names |-> reps.names, ids |-> reps.ids,
                   raised |-> "IndexError"]
             ELSE IF fields[2] # <<"1">>
             THEN OtuRepresentatives(file, i + 1, reps)
             ELSE IF Len(fields) < 4
             THEN [names |-> reps.names, ids |-> reps.ids,
                   raised |-> "IndexError"]
             ELSE LET name == Replace(Replace(fields[4], <<"s", "u", "b", "s", "t", "r", ".">>, <<>>),
                                      <<"s", "t", "r", ".">>, <<>>)
                  IN  OtuRepresentatives(file, i + 1,
                          [names |-> IF name \in DOMAIN reps.ids
                                     THEN reps.names
                                     ELSE Append(reps.names, name),
                           ids |-> (name :> fields[3]) @@ reps.ids])

\* lookup_name: the first two words of a name, the first three of a
\* name that starts with 'Candidatus'
LookupName(name) ==
    LET num_words == IF StartsWith(name, <<"C", "a", "n", "d", "i", "d", "a", "t", "u", "s">>) THEN 3 ELSE 2
        parts == Split(name)
    IN  Join(Slice(parts, 0, num_words), <<" ">>)

\* is_prokaryote that answers True for every organism
IsProkaryote_Any(o) == o.taxonomy = o.taxonomy

\* KeggOrganism.is_prokaryote
IsProkaryote(o) == o.taxonomy[1] = <<"P", "r", "o", "k", "a", "r", "y", "o", "t", "e", "s">>

\* KeggOrganism.is_representative
IsRepresentative(o) == o.otu_representative

\* lookup[key]: the positions in the records of the prokaryotes whose
\* name gives that key, in the order of the records; <<>> when the key is
\* not in the dict
Lookup(recs, key) ==
    SelectSeq([i \in 1..Len(recs) |-> i],
              LAMBDA i : IsProkaryote(recs[i])
                         /\ LookupName(recs[i].name[1]) = key)

\* fuzz.ratio, fuzz.partial_ratio and fuzz.token_set_ratio of the
\* fuzzywuzzy package, as the table fz of scores gives them
FuzzRatio(fz, a, b) == fz[<<a, b>>].ratio
FuzzPartialRatio(fz, a, b) == fz[<<a, b>>].partial_ratio
FuzzTokenSetRatio(fz, a, b) == fz[<<a, SearchName(b)>>].token_set_ratio

\* sorted(matches, key=ratio, reverse=True): matches of one ratio keep
\* their order
RECURSIVE InsertByRatio(_, _)
InsertByRatio(sorted, m) ==
    IF sorted = <<>> THEN <<m>>
    ELSE IF Head(sorted).ratio >= m.ratio
         THEN <<Head(sorted)>> \o InsertByRatio(Tail(sorted), m)
         ELSE <<m>> \o sorted

RECURSIVE SortByRatioFrom(_, _, _)
SortByRatioFrom(ms, i, sorted) ==
    IF i > Len(ms) THEN sorted
    ELSE SortByRatioFrom(ms, i + 1, InsertByRatio(sorted, ms[i]))

SortByRatio(ms) == SortByRatioFrom(ms, 1, <<>>)

\* the matches of a name: one for each organism of its bucket, with the
\* ratio of the name to the search name, best ratio first
Matches(recs, bucket, name, fz) ==
    SortByRatio([k \in 1..Len(bucket) |->
        [organism |-> bucket[k],
         ratio |-> FuzzRatio(fz, name, recs[bucket[k]].search_name[1]),
         partial_ratio |-> 0,
         token_set_ratio |-> 0,
         possible |-> FALSE]])

\* the list `possible`
Possible(ms) == SelectSeq(ms, LAMBDA m : m.possible)

\* selection by ratio that takes every match at or above the cutoff
ByRatio_AllAboveCutoff(ms) ==
    [k \in 1..Len(ms) |->
        [ms[k] EXCEPT !.possible = (ms[k].ratio >= MATCH_CUTOFF)]]

\* selection by ratio: with the best ratio at or above the cutoff, the
\* matches of that ratio are possible
ByRatio(ms) ==
    LET max_ratio == ms[1].ratio
    IN  IF max_ratio >= MATCH_CUTOFF
        THEN [k \in 1..Len(ms) |->
                 [ms[k] EXCEPT !.possible = (ms[k].ratio = max_ratio)]]
        ELSE ms

\* selection by partial ratio, when nothing is possible yet
ByPartialRatio(ms, recs, name, fz) ==
    IF Len(Possible(ms)) = 0
    THEN [k \in 1..Len(ms) |->
            LET pr == FuzzPartialRatio(fz, name,
                                       recs[ms[k].organism].search_name[1])
            IN  [ms[k] EXCEPT !.partial_ratio = pr,
                              !.possible = (pr >= MATCH_CUTOFF)]]
    ELSE ms

\* selection by token set ratio, when nothing is possible yet
ByTokenSetRatio(ms, recs, name, fz) ==
    IF Len(Possible(ms)) = 0
    THEN [k \in 1..Len(ms) |->
            LET tr == FuzzTokenSetRatio(fz, name, recs[ms[k].organism].name[1])
            IN  [ms[k] EXCEPT !.token_set_ratio = tr,
                              !.possible = (tr = 100)]]
    ELSE ms

\* the choice that leaves a sole candidate without a good match alone
Flagged_NoDefault(possible, bucket) ==
    IF Len(possible) > 0 THEN <<possible[1].organism>> ELSE <<>>

\* the organism that is set as the representative: the first possible
\* match, or the only organism of the bucket; <<>> for none_selected
Flagged(possible, bucket) ==
    IF Len(possible) > 0 THEN <<possible[1].organism>>
    ELSE IF Len(bucket) = 1 THEN <<bucket[1]>>
    ELSE <<>>

\* the reset that leaves the flags alone
ResetFlags_Keep(recs) == recs

\* every organism is reset to not be an OTU representative
ResetFlags(recs) ==
    [i \in 1..Len(recs) |-> [recs[i] EXCEPT !.otu_representative = 0]]

\* the RESULT column of the row of match m
SelectedValue(recs, m, possible, none_selected) ==
    IF none_selected THEN "not found"
    ELSE IF Len(possible) > 1
    THEN IF IsRepresentative(recs[m.organism]) # 0 THEN "selected"
         ELSE IF m.possible THEN "alternate"
         ELSE "skipped"
    ELSE IF IsRepresentative(recs[m.organism]) # 0 THEN "selected"
         ELSE "skipped"

\* one round of the loop over the representatives: the records, the rows
\* of the report and the locals of the round
RepresentativeStep(recs, name, rep_id, fz) ==
    LET bucket == Lookup(recs, LookupName(name))
        ms == ByTokenSetRatio(
                  ByPartialRatio(ByRatio(Matches(recs, bucket, name, fz)),
                                 recs, name, fz),
                  recs, name, fz)
        possible == Possible(ms)
        flagged == Flagged(possible, bucket)
        after == IF flagged = <<>> THEN recs
                 ELSE [recs EXCEPT ![flagged[1]].otu_representative = 1]
    IN  IF bucket = <<>>
        THEN [records |-> recs,
              rows |-> <<[OTU_REP_NAME |-> name, OTU_REP_ID |-> rep_id,
                          NAME |-> <<"n", "o", " ", "m", "a", "t", "c", "h">>, ID |-> <<"n", "o", " ", "m", "a", "t", "c", "h">>,
                          RATIO |-> 0, PARTIAL_RATIO |-> 0,
                          TOKEN_SET_RATIO |-> 0, RESULT |-> "no match"]>>,
              locals |-> [name |-> name, bucket |-> bucket, matches |-> <<>>,
                          possible |-> <<>>, flagged |-> <<>>]]
        ELSE [records |-> after,
              rows |-> [k \in 1..Len(ms) |->
                         [OTU_REP_NAME |-> name, OTU_REP_ID |-> rep_id,
                          NAME |-> recs[ms[k].organism].name[1],
                          ID |-> recs[ms[k].organism].id[1],
                          RATIO |-> ms[k].ratio,
                          PARTIAL_RATIO |-> ms[k].partial_ratio,
                          TOKEN_SET_RATIO |-> ms[k].token_set_ratio,
                          RESULT |-> SelectedValue(after, ms[k], possible,
                                                   flagged = <<>>)]],
              locals |-> [name |-> name, bucket |-> bucket, matches |-> ms,
                          possible |-> possible, flagged |-> flagged]]

\* the loop over the representatives, in the order the dict gives its keys
RECURSIVE RepresentativeLoop(_, _, _, _, _)
RepresentativeLoop(acc, order, i, ids, fz) ==
    IF i > Len(order) THEN acc
    ELSE LET r == RepresentativeStep(acc.records, order[i], ids[order[i]], fz)
         IN  RepresentativeLoop(
                 [records |-> r.records, report |-> acc.report \o r.rows,
                  analysis |-> Append(acc.analysis, r.locals),
                  raised |-> "none"],
                 order, i + 1, ids, fz)

\* set_representatives(otu_file): otu is <<the lines of the file>>, or
\* <<>> for a file that cannot be read; order is the order in which the
\* dict of representatives gives its keys
SetRepresentativesResult(recs, otu, order, fz) ==
    LET cleared == ResetFlags(recs)
        reps == OtuRepresentatives(otu[1], 1, [names |-> <<>>, ids |-> <<>>])
    IN  IF Len(recs) = 0
        THEN [records |-> recs, report |-> <<>>, analysis |-> <<>>,
              raised |-> "DatabaseError"]
        ELSE IF otu = <<>>
        THEN [records |-> cleared, report |-> <<>>, analysis |-> <<>>,
              raised |-> "IOError"]
        ELSE IF reps.raised # "none"
        THEN [records |-> cleared, report |-> <<>>, analysis |-> <<>>,
              raised |-> reps.raised]
        ELSE RepresentativeLoop(
                 [records |-> cleared, report |-> <<>>, analysis |-> <<>>,
                  raised |-> "none"],
                 order, 1, reps.ids, fz)


-----------------------------------------------------------------------------
(* SpecRepresentatives: an organism database is loaded from its file and   *)
(* set_representatives is called on it with an OTU file.                   *)

\* the organisms of the files: two strains of one species, the first
\* flagged in the file, a eukaryote, a species with one strain and a
\* candidate species
RepK12 == Organism(<<"T", "1">>, <<"e", "c", "o">>, <<"E", ".", " ", "c", "o", "l", "i", " ", "K", "-", "1", "2", " ", "(", "M", "G", "1", "6", "5", "5", ")">>, <<"P", "r", "o", "k", "a", "r", "y", "o", "t", "e", "s", ";", "B", "a", "c", "t", "e", "r", "i", "a">>, <<"1">>)
RepO157 == Organism(<<"T", "2">>, <<"e", "c", "s">>, <<"E", ".", " ", "c", "o", "l", "i", " ", "O", "1", "5", "7">>, <<"P", "r", "o", "k", "a", "r", "y", "o", "t", "e", "s", ";", "B", "a", "c", "t", "e", "r", "i", "a">>, <<"0">>)
RepSce == Organism(<<"T", "3">>, <<"s", "c", "e">>, <<"S", ".", " ", "c", "e", "r", "e", "v", "i", "s", "i", "a", "e", " ", "S", "2", "8", "8", "C">>, <<"E", "u", "k", "a", "r", "y", "o", "t", "e", "s", ";", "F", "u", "n", "g", "i">>, <<"1">>)
RepBsu == Organism(<<"T", "4">>, <<"b", "s", "u">>, <<"B", ".", " ", "s", "u", "b", "t", "i", "l", "i", "s", " ", "1", "6", "8">>, <<"P", "r", "o", "k", "a", "r", "y", "o", "t", "e", "s", ";", "B", "a", "c", "t", "e", "r", "i", "a">>, <<"0">>)
RepPub == Organism(<<"T", "5">>, <<"p", "u", "b">>, <<"C", "a", "n", "d", "i", "d", "a", "t", "u", "s", " ", "P", ".", " ", "u", "b", "i", "q", "u", "e", " ", "H", "T", "C", "C", "1", "0", "6", "2">>, <<"P", "r", "o", "k", "a", "r", "y", "o", "t", "e", "s", ";", "B", "a", "c", "t", "e", "r", "i", "a">>, <<"1">>)

RepFiles ==
    { OrgFileOf(<<RepK12, RepO157, RepSce>>),
      OrgFileOf(<<RepBsu, RepPub>>),
      OrgFileOf(<<>>) }

\* a line of an OTU file
OtuLine(fields) == Join(fields, <<"\t">>) \o <<"\n">>

\* the OTU files: two representatives of one species and a member that
\* is no representative; a representative of a species with one strain
\* and one of a eukaryote; a representative of a candidate species; a
\* line without the name; a file that cannot be read
OtuFiles ==
    { <<<<OtuLine(<<<<"1">>, <<"1">>, <<"G", "1">>, <<"E", ".", " ", "c", "o", "l", "i", " ", "s", "t", "r", ".", " ", "K", "-", "1", "2">>>>),
          OtuLine(<<<<"1">>, <<"0">>, <<"G", "9">>, <<"E", ".", " ", "c", "o", "l", "i", " ", "B">>>>),
          OtuLine(<<<<"2">>, <<"1">>, <<"G", "2">>, <<"E", ".", " ", "c", "o", "l", "i", " ", "O", "1", "5", "7", ":", "H", "7">>>>)>>>>,
      <<<<OtuLine(<<<<"3">>, <<"1">>, <<"G", "3">>, <<"B", ".", " ", "s", "u", "b", "t", "i", "l", "i", "s">>>>),
          OtuLine(<<<<"4">>, <<"1">>, <<"G", "4">>, <<"S", ".", " ", "c", "e", "r", "e", "v", "i", "s", "i", "a", "e">>>>)>>>>,
      <<<<OtuLine(<<<<"5">>, <<"1">>, <<"G", "5">>, <<"C", "a", "n", "d", "i", "d", "a", "t", "u", "s", " ", "P", ".", " ", "u", "b", "i", "q", "u", "e">>>>)>>>>,
      <<<<OtuLine(<<<<"6">>, <<"1">>, <<"G", "6">>>>)>>>>,
      <<>> }

\* the orders in which the dict of the representatives of an OTU file can
\* give its keys
KeyOrders(otu) ==
    IF otu = <<>> THEN {<<>>}
    ELSE LET reps == OtuRepresentatives(otu[1], 1,
                                        [names |-> <<>>, ids |-> <<>>])
             n == Len(reps.names)
         IN  IF reps.raised # "none" THEN {<<>>}
             ELSE {p \in [1..n -> Range(reps.names)] :
                      \A i, j \in 1..n : p[i] = p[j] => i = j}

\* the names of the representatives of the OTU files
RepNames ==
    UNION {Range(OtuRepresentatives(otu[1], 1,
                                    [names |-> <<>>, ids |-> <<>>]).names) :
              otu \in OtuFiles \ {<<>>}}

\* the scores of a name and an organism: a full match, a match at the
\* cutoff, a partial match only, a token set match only, no match
FuzzScores ==
    { [ratio |-> 100, partial_ratio |-> 100, token_set_ratio |-> 100],
      [ratio |-> 97, partial_ratio |-> 100, token_set_ratio |-> 100],
      [ratio |-> 90, partial_ratio |-> 97, token_set_ratio |-> 90],
      [ratio |-> 90, partial_ratio |-> 90, token_set_ratio |-> 100],
      [ratio |-> 50, partial_ratio |-> 50, token_set_ratio |-> 50] }

\* the tables of scores for the names of the OTU files and the search
\* names of the prokaryotes of a file that fall into the bucket of the name
FuzzTables(file) ==
    LET orgs == {OrgParse(file[i]).obj : i \in 1..Len(file)}
        pairs == {p \in RepNames \X {o.search_name[1] : o \in orgs} :
                     \E o \in orgs :
                         /\ IsProkaryote(o)
                         /\ o.search_name[1] = p[2]
                         /\ LookupName(o.name[1]) = LookupName(p[1])}
    IN  [pairs -> FuzzScores]

RepInit ==
    /\ disk \in RepFiles
    /\ fuzz \in FuzzTables(disk)
    /\ report = <<>>
    /\ analysis = <<>>
    /\ records = <<>>
    /\ rdict = <<>>
    /\ raised = "none"
    /\ code_to_id = <<>>
    /\ pc = "open"
    /\ ent = <<>>
    /\ lines = <<>> /\ lpos = 1 /\ field_name = <<>> /\ obj = <<>>
    /\ warnings = <<>>
    /\ ReaderIdle
    /\ KeggIdle
    /\ TranslateIdle

\* set_representatives(otu_file)
SetRepresentatives ==
    /\ \E otu \in OtuFiles : \E order \in KeyOrders(otu) :
        LET r == SetRepresentativesResult(records, otu, order, fuzz)
        IN  /\ records' = r.records
            /\ report' = r.report
            /\ analysis' = r.analysis
            /\ raised' = r.raised
    /\ pc' = "set_representatives"
    /\ ent' = <<>>
    /\ UNCHANGED <<rdict, disk, code_to_id, fuzz, lines, lpos, field_name, obj,
                   warnings, readerVars, keggVars, trVars>>

RepNext == OrgLoad \/ SetRepresentatives

SpecRepresentatives == RepInit /\ [][RepNext]_vars

\* the positions of the organisms that carry the flag
FlaggedNow == {i \in 1..Len(records) : records[i].otu_representative = 1}

\* C15: when set_representatives has returned, an organism carries the
\* flag only if it was chosen for a representative name during the call,
\* whatever flags the organisms carried before, and for each name at most
\* one organism was flagged.
C15_FlagsOnlyFromThisCall ==
    (pc = "set_representatives" /\ raised = "none") =>
        /\ \A i \in FlaggedNow :
               \E k \in 1..Len(analysis) : analysis[k].flagged = <<i>>
        /\ \A k \in 1..Len(analysis) : Len(analysis[k].flagged) <= 1
        /\ \A i \in 1..Len(records) :
               records[i].otu_representative \in {0, 1}


\* C15 witness: the first organism of the file carried the flag when the
\* database was loaded; set_representatives has returned, the organism
\* was not chosen and has lost the flag, and the second organism was
\* chosen and carries it.
C15_Witness ==
    /\ pc = "set_representatives"
    /\ raised = "none"
    /\ Len(records) >= 2
    /\ OrgParse(disk[1]).obj.otu_representative = 1
    /\ records[1].otu_representative = 0
    /\ records[2].otu_representative = 1
    /\ \E k \in 1..Len(analysis) : analysis[k].flagged = <<2>>

\* the scores of the representative name of the round e and the organism
\* at position i of the records
ScoresOf(e, i) ==
    [ratio |-> fuzz[<<e.name, records[i].search_name[1]>>].ratio,
     partial_ratio |->
         fuzz[<<e.name, records[i].search_name[1]>>].partial_ratio,
     token_set_ratio |->
         fuzz[<<e.name, SearchName(records[i].name[1])>>].token_set_ratio]

\* the organisms of the possible matches of the round e
PossibleOf(e) == {m.organism : m \in Range(e.possible)}

\* C16: for a representative name whose bucket has a candidate with
\* ratio >= 97, the possible matches are exactly the candidates whose
\* ratio is the best of the bucket, the organism flagged is one of them,
\* and every candidate keeps partial ratio 0 and token set ratio 0. The
\* partial ratio is taken only when no candidate has ratio >= 97, and
\* then the candidates with partial ratio >= 97 are possible; the token
\* set ratio is taken only when none of those passed either, and then
\* the candidates with token set ratio 100 are possible.
C16_BestRatioFirst ==
    (pc = "set_representatives" /\ raised = "none") =>
        \A k \in 1..Len(analysis) :
            LET e == analysis[k]
                cand == Range(e.bucket)
                byRatio == {i \in cand : ScoresOf(e, i).ratio >= 97}
                byPartial == {i \in cand : ScoresOf(e, i).partial_ratio >= 97}
                byToken == {i \in cand : ScoresOf(e, i).token_set_ratio = 100}
            IN  /\ byRatio # {} =>
                    /\ PossibleOf(e) =
                           {i \in cand : \A j \in cand :
                               ScoresOf(e, i).ratio >= ScoresOf(e, j).ratio}
                    /\ e.flagged # <<>>
                    /\ e.flagged[1] \in PossibleOf(e)
                    /\ records[e.flagged[1]].otu_representative = 1
                    /\ \A m \in Range(e.matches) :
                           m.partial_ratio = 0 /\ m.token_set_ratio = 0
                /\ (\E m \in Range(e.matches) : m.partial_ratio # 0) =>
                       byRatio = {}
                /\ (\E m \in Range(e.matches) : m.token_set_ratio # 0) =>
                       byRatio = {} /\ byPartial = {}
                /\ (byRatio = {} /\ byPartial # {}) =>
                       PossibleOf(e) = byPartial
                /\ (byRatio = {} /\ byPartial = {}) =>
                       PossibleOf(e) = byToken

\* C16 witness: a bucket of two candidates, one with ratio 100 and one
\* with ratio 97; only the first is possible, and it is flagged.
C16_Witness ==
    /\ pc = "set_representatives"
    /\ raised = "none"
    /\ \E k \in 1..Len(analysis) :
        LET e == analysis[k]
        IN  /\ Len(e.bucket) = 2
            /\ {ScoresOf(e, i).ratio : i \in Range(e.bucket)} = {97, 100}
            /\ Len(e.possible) = 1
            /\ e.possible[1].ratio = 100
            /\ e.flagged = <<e.possible[1].organism>>

\* the rows of the report for a representative name
RowsOf(name) == SelectSeq(report, LAMBDA row : row.OTU_REP_NAME = name)

\* C17: the organism of a bucket of one is flagged whatever its scores;
\* a name ends 'not found', with no organism flagged for it, only when
\* its bucket holds at least two organisms and none of them has ratio
\* >= 97, partial ratio >= 97 or token set ratio 100.
C17_SoleCandidateDefault ==
    (pc = "set_representatives" /\ raised = "none") =>
        \A k \in 1..Len(analysis) :
            LET e == analysis[k]
                notFound == \E row \in Range(RowsOf(e.name)) :
                                row.RESULT = "not found"
            IN  /\ Len(e.bucket) = 1 =>
                    /\ e.flagged = <<e.bucket[1]>>
                    /\ records[e.bucket[1]].otu_representative = 1
                /\ notFound <=> (e.bucket # <<>> /\ e.flagged = <<>>)
                /\ notFound =>
                    /\ Len(e.bucket) >= 2
                    /\ \A i \in Range(e.bucket) :
                        /\ ScoresOf(e, i).ratio < 97
                        /\ ScoresOf(e, i).partial_ratio < 97
                        /\ ScoresOf(e, i).token_set_ratio # 100

\* C17 witness: a bucket of one organism that passed none of the three
\* scores and is flagged all the same.
C17_Witness ==
    /\ pc = "set_representatives"
    /\ raised = "none"
    /\ \E k \in 1..Len(analysis) :
        LET e == analysis[k]
        IN  /\ Len(e.bucket) = 1
            /\ e.possible = <<>>
            /\ ScoresOf(e, e.bucket[1]).ratio < 97
            /\ e.flagged = <<e.bucket[1]>>
            /\ records[e.bucket[1]].otu_representative = 1

\* the rows of a RESULT among the rows for a representative name
RowsWith(name, value) ==
    SelectSeq(RowsOf(name), LAMBDA row : row.RESULT = value)

\* C18: the report holds, for every representative name, one row for
\* each candidate of its bucket, or one 'no match' row when it has no
\* bucket; the rows 'selected' are the row of the organism chosen for the
\* name and no other, so there is at most one; the other rows are
\* 'alternate' for a possible match, 'skipped', or all 'not found'.
C18_ReportClassification ==
    (pc = "set_representatives" /\ raised = "none") =>
        \A k \in 1..Len(analysis) :
            LET e == analysis[k]
                rows == RowsOf(e.name)
            IN  IF e.bucket = <<>>
                THEN Len(rows) = 1 /\ rows[1].RESULT = "no match"
                ELSE /\ Len(rows) = Len(e.bucket)
                     /\ Len(RowsWith(e.name, "selected")) <= 1
                     /\ \A j \in 1..Len(rows) :
                         /\ rows[j].ID = records[e.matches[j].organism].id[1]
                         /\ rows[j].RESULT = "selected"
                                <=> e.flagged = <<e.matches[j].organism>>
                         /\ rows[j].RESULT = "alternate"
                                => /\ e.matches[j].possible
                                   /\ e.flagged # <<e.matches[j].organism>>
                         /\ rows[j].RESULT \in {"selected", "alternate",
                                                "skipped", "not found"}
                         /\ rows[j].RESULT = "not found" =>
                                \A i \in 1..Len(rows) :
                                    rows[i].RESULT = "not found"


-----------------------------------------------------------------------------
(* translate: the ids of the metabolites and reactions of a model are      *)
(* replaced through two cross reference files.                             *)

\* the dict made of the lines i.. of a cross reference file: the two
\* fields of each line, stripped of the characters chars, the first the
\* key when forward, the second otherwise; ValueError for a line that
\* has not two fields
RECURSIVE XrefLines(_, _, _, _, _)
XrefLines(xlines, i, forward, chars, dict) ==
    IF i > Len(xlines) THEN [dict |-> dict, raised |-> "none"]
    ELSE LET parts == SplitOn(xlines[i], "\t")
         IN  IF Len(parts) # 2 THEN [dict |-> dict, raised |-> "ValueError"]
             ELSE LET s == StripChars(parts[1], chars)
                      v == StripChars(parts[2], chars)
                  IN  XrefLines(xlines, i + 1, forward, chars,
                                IF forward THEN (s :> v) @@ dict
                                ELSE (v :> s) @@ dict)

\* the reading of a cross reference file: file is <<its lines>>, or <<>>
\* for a file that cannot be opened
XrefDict(file, from_namespace, to_namespace, chars) ==
    IF file = <<>> THEN [dict |-> <<>>, raised |-> "IOError"]
    ELSE IF file[1] = <<>> THEN [dict |-> <<>>, raised |-> "IndexError"]
    ELSE LET header == SplitOn(Strip(file[1][1]), "\t")
             rest == Tail(file[1])
         IN  IF Len(header) # 2 THEN [dict |-> <<>>, raised |-> "ValueError"]
             ELSE IF from_namespace = header[1] /\ to_namespace = header[2]
             THEN XrefLines(rest, 1, TRUE, chars, <<>>)
             ELSE IF from_namespace = header[2] /\ to_namespace = header[1]
             THEN XrefLines(rest, 1, FALSE, chars, <<>>)
             ELSE [dict |-> <<>>, raised |-> "ValueError"]

\* re.split(r'_([ce])$', s): the id without its compartment suffix and
\* the compartment, or <<s>> for an id without the suffix
SplitSuffix(s) ==
    LET n == Len(s)
    IN  IF n >= 2 /\ s[n - 1] = "_" /\ s[n] \in {"c", "e"}
        THEN <<SubSeq(s, 1, n - 2), <<s[n]>>, <<>>>>
        ELSE <<s>>

\* the assignment of an id that always takes effect
SetId_Unchecked(ids, i, new, checked) == [ids EXCEPT ![i] = new]

\* `object.id = new` on the object at position i of a list of the model:
\* a cobra that keeps ids unique raises ValueError for an id the list
\* holds, and translate passes over every exception of the round
SetId(ids, i, new, checked) ==
    IF checked /\ new \in Range(ids) THEN ids
    ELSE [ids EXCEPT ![i] = new]

\* the loop over the metabolites, from position i
RECURSIVE TranslateMetabolites(_, _, _, _)
TranslateMetabolites(ids, i, dict, checked) ==
    IF i > Len(ids) THEN ids
    ELSE LET parts == SplitSuffix(ids[i])
         IN  IF Len(parts) = 3 /\ parts[1] \in DOMAIN dict
             THEN TranslateMetabolites(
                      SetId(ids, i, Strip(dict[parts[1]]) \o <<"_">> \o parts[2],
                            checked),
                      i + 1, dict, checked)
             ELSE TranslateMetabolites(ids, i + 1, dict, checked)

\* the loop over the reactions, from position i
RECURSIVE TranslateReactions(_, _, _, _)
TranslateReactions(ids, i, dict, checked) ==
    IF i > Len(ids) THEN ids
    ELSE IF ids[i] \in DOMAIN dict
         THEN TranslateReactions(SetId(ids, i, Strip(dict[ids[i]]), checked),
                                 i + 1, dict, checked)
         ELSE TranslateReactions(ids, i + 1, dict, checked)

\* translate(model, reaction_xref_file_name, metabolite_xref_file_name,
\* from_namespace, to_namespace): the model object afterwards, which is
\* also the object returned, and the exception raised
TranslateResult(m, reaction_xref, metabolite_xref, from_namespace, to_namespace) ==
    LET md == XrefDict(metabolite_xref, from_namespace, to_namespace, {"\n"})
        m1 == [m EXCEPT !.metabolites =
                  TranslateMetabolites(m.metabolites, 1, md.dict, m.checked)]
        rd == XrefDict(reaction_xref, from_namespace, to_namespace, Whitespace)
        m2 == [m1 EXCEPT !.reactions =
                  TranslateReactions(m1.reactions, 1, rd.dict, m.checked)]
    IN  IF md.raised # "none" THEN [model |-> m, raised |-> md.raised]
        ELSE IF rd.raised # "none" THEN [model |-> m1, raised |-> rd.raised]
        ELSE [model |-> m2, raised |-> "none"]

-----------------------------------------------------------------------------
(* SpecTranslate: translate is called on one model object, again and       *)
(* again, each time on the model the call before left.                     *)

\* most calls of translate
MaxCalls == 2

\* the metabolite cross reference files: a table of two pairs; the same
\* with a blank after an id of the second namespace; a header of three
\* fields; a file that cannot be opened
MetaboliteXrefs ==
    { <<<<OtuLine(<<<<"v", "m", "h">>, <<"s", "e", "e", "d">>>>), OtuLine(<<<<"a">>, <<"x">>>>),
          OtuLine(<<<<"b">>, <<"y">>>>)>>>>,
      <<<<OtuLine(<<<<"v", "m", "h">>, <<"s", "e", "e", "d">>>>), OtuLine(<<<<"a">>, <<"x", " ">>>>),
          OtuLine(<<<<"b">>, <<"y">>>>)>>>>,
      <<<<OtuLine(<<<<"v", "m", "h">>, <<"s", "e", "e", "d">>, <<"b", "i", "g", "g">>>>), OtuLine(<<<<"a">>, <<"x">>>>)>>>>,
      <<>> }

\* the reaction cross reference files: a table of one pair; a file that
\* cannot be opened
ReactionXrefs ==
    { <<<<OtuLine(<<<<"v", "m", "h">>, <<"s", "e", "e", "d">>>>), OtuLine(<<<<"R", "1">>, <<"r", "x", "n", "1">>>>)>>>>,
      <<>> }

\* the pairs of namespaces of a call
NamespacePairs ==
    { <<<<"v", "m", "h">>, <<"s", "e", "e", "d">>>>, <<<<"s", "e", "e", "d">>, <<"v", "m", "h">>>>, <<<<"b", "a", "d">>, <<"s", "e", "e", "d">>>>,
      <<<<"v", "m", "h">>, <<"b", "a", "d">>>> }

\* the models: up to two metabolites and one reaction, with ids of the
\* first namespace, of the second, of neither, and without a compartment
TranslateModels ==
    { [metabolites |-> ms, reactions |-> rs, checked |-> c] :
        ms \in { <<>>, <<<<"a", "_", "c">>>>, <<<<"x", "_", "c">>>>, <<<<"q", "_", "e">>>>, <<<<"a">>>>,
                 <<<<"a", "_", "c">>, <<"b", "_", "e">>>>, <<<<"a", "_", "c">>, <<"x", "_", "c">>>>, <<<<"a", "_", "c">>, <<"q", "_", "e">>>> },
        rs \in { <<>>, <<<<"R", "1">>>>, <<<<"r", "x", "n", "1">>>>, <<<<"R", "9">>>> },
        c \in BOOLEAN }

\* the arguments of a call: the two files and the pair of namespaces, at
\* most one of the three at fault (a file that cannot be read or has a
\* header of three fields, a namespace that no header has)
TranslateArgs ==
    LET faults(a) ==
            (IF a[1] = <<>> THEN 1 ELSE 0)
            + (IF a[2] = <<>> \/ Len(SplitOn(Strip(a[2][1][1]), "\t")) # 2
               THEN 1 ELSE 0)
            + (IF <<"b", "a", "d">> \in Range(a[3]) THEN 1 ELSE 0)
    IN  {a \in ReactionXrefs \X MetaboliteXrefs \X NamespacePairs :
            faults(a) <= 1}

TranslateInit ==
    /\ model \in TranslateModels
    /\ calls = <<>>
    /\ pc = "idle"
    /\ raised = "none"
    /\ ent = <<>>
    /\ lines = <<>> /\ lpos = 1 /\ field_name = <<>> /\ obj = <<>>
    /\ warnings = <<>>
    /\ records = <<>> /\ rdict = <<>> /\ disk = <<>> /\ code_to_id = <<>>
    /\ ReaderIdle
    /\ KeggIdle
    /\ OtuIdle

\* translate(model, ...)
Translate ==
    /\ Len(calls) < MaxCalls
    /\ \E a \in TranslateArgs :
        LET rx == a[1]
            mx == a[2]
            ns == a[3]
            r == TranslateResult(model, rx, mx, ns[1], ns[2])
        IN  /\ model' = r.model
            /\ raised' = r.raised
            /\ calls' = Append(calls,
                   [reaction_xref |-> rx, metabolite_xref |-> mx,
                    from_namespace |-> ns[1], to_namespace |-> ns[2],
                    before |-> model, raised |-> r.raised])
    /\ pc' = "translate"
    /\ UNCHANGED <<ent, lines, lpos, field_name, obj, warnings, records, rdict,
                   disk, code_to_id, readerVars, keggVars, otuVars>>

TranslateNext == Translate

SpecTranslate == TranslateInit /\ [][TranslateNext]_vars

\* a cross reference file maps the two namespaces one to one: no id of
\* either column, blanks aside, is on two lines
OneToOne(file) ==
    /\ file # <<>>
    /\ Len(file[1]) >= 1
    /\ \A i, j \in 2..Len(file[1]) :
        LET pi == SplitOn(file[1][i], "\t")
            pj == SplitOn(file[1][j], "\t")
        IN  /\ Len(pi) = 2
            /\ i # j => /\ Strip(pi[1]) # Strip(pj[1])
                        /\ Strip(pi[2]) # Strip(pj[2])

\* C19: when translate has returned for a pair of namespaces and has
\* then returned for the reversed pair on the same files, and the files
\* map the namespaces one to one, the model has the set of reaction ids
\* and the set of metabolite ids it had before the first of the two
\* calls, whatever ids it held: ids of the first namespace, ids without
\* an entry in the files, ids of the second namespace.
C19_TranslateRoundTrip ==
    LET n == Len(calls)
    IN  (/\ n >= 2
         /\ calls[n - 1].raised = "none"
         /\ calls[n].raised = "none"
         /\ calls[n].reaction_xref = calls[n - 1].reaction_xref
         /\ calls[n].metabolite_xref = calls[n - 1].metabolite_xref
         /\ calls[n].from_namespace = calls[n - 1].to_namespace
         /\ calls[n].to_namespace = calls[n - 1].from_namespace
         /\ OneToOne(calls[n].reaction_xref)
         /\ OneToOne(calls[n].metabolite_xref))
        => /\ Range(model.reactions) = Range(calls[n - 1].before.reactions)
           /\ Range(model.metabolites) = Range(calls[n - 1].before.metabolites)

\* C20: the model object passed to translate has, after the call, the
\* reaction ids and the metabolite ids it had before, when translate has
\* returned and when it has raised.
C20_InputModelKeepsIds ==
    \A k \in 1..Len(calls) :
        LET after == IF k < Len(calls) THEN calls[k + 1].before ELSE model
        IN  /\ after.reactions = calls[k].before.reactions
            /\ after.metabolites = calls[k].before.metabolites


-----------------------------------------------------------------------------
(* Claims about the lines of the enzyme record.                            *)

\* C21: the first line make_record writes for an enzyme, whatever its id,
\* is 'ENTRY       EC <id>', then spaces up to column 30 and 'Obsolete
\* Enzyme' for an obsolete enzyme, or spaces up to column 40 and 'Enzyme'
\* for any other, with at least one space between the id and the suffix.
C21_EntryWireFormat ==
    (pc # "new" /\ ent # <<>>) =>
        LET entry == <<"E", "N", "T", "R", "Y", " ", " ", " ", " ", " ", " ", " ", "E", "C", " ">> \o ent[1].id[1]
            column == IF ent[1].obsolete # 0 THEN ObsoleteColumn
                      ELSE EnzymeColumn
            suffix == IF ent[1].obsolete # 0 THEN <<"O", "b", "s", "o", "l", "e", "t", "e", " ", " ", "E", "n", "z", "y", "m", "e">>
                      ELSE <<"E", "n", "z", "y", "m", "e">>
        IN  /\ column - Len(entry) >= 1
            /\ lines[1] = entry \o Spaces(column - Len(entry)) \o suffix
            /\ Slice(lines[1], column, Len(lines[1])) = suffix


\* the whitespace tokens of the value of the first line of the record
\* being parsed
EntryTokens == Split(Strip(From(lines[1], 12)))

\* the first line of the record being parsed is an ENTRY line of the form
\* 'EC <id>', alone or followed by more tokens, and parse() is past it
EntryLineRead ==
    /\ pc \in {"parse", "returned", "raised"}
    /\ lpos >= 2
    /\ Len(lines) >= 1
    /\ Slice(lines[1], 0, 12) = <<"E", "N", "T", "R", "Y", " ", " ", " ", " ", " ", " ", " ">>
    /\ Len(EntryTokens) >= 2
    /\ EntryTokens[1] = <<"E", "C">>

\* C22: from an ENTRY value 'EC <id>', alone or followed by 'Enzyme' or
\* 'Obsolete  Enzyme', the parser takes the second token as the id and
\* sets obsolete to 1 exactly when there is a third token and it is
\* 'Obsolete'; the value of two tokens is parsed without an exception and
\* with obsolete 0.
C22_EntryParsing ==
    EntryLineRead =>
        /\ ~(pc = "raised" /\ lpos = 2)
        /\ obj.id = <<EntryTokens[2]>>
        /\ obj.obsolete = 1
               <=> (Len(EntryTokens) >= 3 /\ EntryTokens[3] = <<"O", "b", "s", "o", "l", "e", "t", "e">>)


\* the field a line of a record belongs to: the trimmed first 12
\* characters of the last line up to line i whose first 12 characters
\* are not blank; <<>> when there is none
RECURSIVE CurrentField(_, _)
CurrentField(ls, i) ==
    IF i = 0 THEN <<>>
    ELSE IF Slice(ls[i], 0, 12) # BlankTag THEN <<Strip(Slice(ls[i], 0, 12))>>
    ELSE CurrentField(ls, i - 1)

\* the trimmed values of the lines up to line n that belong to a field, in
\* line order
ValuesOf(ls, n, name) ==
    LET js == SelectSeq([j \in 1..n |-> j],
                        LAMBDA j : CurrentField(ls, j) = <<name>>)
    IN  [k \in 1..Len(js) |-> Strip(From(ls[js[k]], 12))]

\* C23: while a record is parsed, every line read so far was dispatched
\* to the field of the last line before or at it with a non-blank prefix
\* of 12 characters: the current field is that of the last line read, and
\* NAME, REACTION and COMMENT hold one value for each of their lines, in
\* line order. The record ENTRY EC 1.1.1.1 Enzyme, NAME alcohol
\* dehydrogenase, REACTION R00754 gives id 1.1.1.1, obsolete 0, that one
\* name, that one reaction and no rxnid.
C23_FieldCursor ==
    /\ (pc = "parse" /\ lpos >= 2) =>
        /\ field_name = CurrentField(lines, lpos - 1)
        /\ Len(obj.name) = Len(ValuesOf(lines, lpos - 1, <<"N", "A", "M", "E">>))
        /\ \A k \in 1..Len(obj.name) :
               obj.name[k]
                   = StripChars(ValuesOf(lines, lpos - 1, <<"N", "A", "M", "E">>)[k], {";"})
        /\ Len(obj.reaction) = Len(ValuesOf(lines, lpos - 1, <<"R", "E", "A", "C", "T", "I", "O", "N">>))
        /\ \A k \in 1..Len(obj.reaction) :
               obj.reaction[k]
                   = StripChars(ValuesOf(lines, lpos - 1, <<"R", "E", "A", "C", "T", "I", "O", "N">>)[k], {";"})
        /\ obj.comment = ValuesOf(lines, lpos - 1, <<"C", "O", "M", "M", "E", "N", "T">>)
    /\ (ParseEnded /\ lines = EnzymeAdhRecord) =>
        /\ pc = "returned"
        /\ obj = [NewEnzyme EXCEPT !.id = <<<<"1", ".", "1", ".", "1", ".", "1">>>>,
                                   !.name = <<<<"a", "l", "c", "o", "h", "o", "l", " ", "d", "e", "h", "y", "d", "r", "o", "g", "e", "n", "a", "s", "e">>>>,
                                   !.reaction = <<<<"R", "0", "0", "7", "5", "4">>>>]

\* C23 witness: the line just read has a blank prefix and went to NAME,
\* the field of the line before it, which now holds two values.
C23_Witness ==
    /\ pc = "parse"
    /\ lpos >= 3
    /\ Slice(lines[lpos - 1], 0, 12) = BlankTag
    /\ field_name = <<<<"N", "A", "M", "E">>>>
    /\ Len(obj.name) = 2
    /\ obj.name[2] = StripChars(Strip(From(lines[lpos - 1], 12)), {";"})


\* a value without its one trailing ';', if it has one
TrailingSemicolonRemoved(v) ==
    IF v # <<>> /\ v[Len(v)] = ";" THEN SubSeq(v, 1, Len(v) - 1) ELSE v

\* the multi-value fields whose lines lose a trailing ';': the tag and
\* the attribute of each
SemicolonTags ==
    { <<<<"N", "A", "M", "E">>, "name">>, <<<<"C", "L", "A", "S", "S">>, "classname">>,
      <<<<"R", "E", "A", "C", "T", "I", "O", "N">>, "reaction">>, <<<<"A", "L", "L", "_", "R", "E", "A", "C">>, "allreactions">>,
      <<<<"S", "U", "B", "S", "T", "R", "A", "T", "E">>, "substrate">>, <<<<"P", "R", "O", "D", "U", "C", "T">>, "product">> }

\* C24: for every line of NAME, CLASS, REACTION, ALL_REAC, SUBSTRATE and
\* PRODUCT read so far, the string stored is the trimmed value of the
\* line without its trailing ';' and otherwise unchanged, a leading ';'
\* included; one string per line, in line order.
C24_TrailingSemicolonOnly ==
    (pc = "parse" /\ lpos >= 2) =>
        \A t \in SemicolonTags :
            LET vals == ValuesOf(lines, lpos - 1, t[1])
            IN  /\ Len(obj[t[2]]) = Len(vals)
                /\ \A k \in 1..Len(vals) :
                       obj[t[2]][k] = TrailingSemicolonRemoved(vals[k])


\* the tokens between '[RN:' and the next ']' of a value, none when the
\* value has no '[RN:'
BracketTokens(val) ==
    LET open == Find(val, <<"[", "R", "N", ":">>)
        close == FindFrom(val, <<"]">>, open + 4)
    IN  IF open < 0 THEN <<>>
        ELSE Split(Slice(val, open + 4, IF close < 0 THEN Len(val) ELSE close))

RECURSIVE BracketTokensOf(_)
BracketTokensOf(vals) ==
    IF vals = <<>> THEN <<>>
    ELSE BracketTokens(Head(vals)) \o BracketTokensOf(Tail(vals))

\* C25: after any number of lines, rxnid holds exactly the tokens between
\* '[RN:' and the matching ']' of the REACTION lines read, in order,
\* wherever the bracket is in the line, and nothing for a line without a
\* bracket; the line itself is stored in reaction in both cases.
C25_RxnidFromBracket ==
    (pc = "parse" /\ lpos >= 2) =>
        LET vals == ValuesOf(lines, lpos - 1, <<"R", "E", "A", "C", "T", "I", "O", "N">>)
        IN  /\ obj.rxnid = BracketTokensOf(vals)
            /\ obj.reaction = [k \in 1..Len(vals) |-> StripChars(vals[k], {";"})]


-----------------------------------------------------------------------------
(* The lines of the organism file: load() on files of one line with four,  *)
(* five or six tab-separated fields.                                       *)

\* the fields a line is made of: id, code, name, taxonomy and flag, and
\* one field more
OrgLineFields ==
    { <<id, <<"e", "c", "o">>, name, taxonomy, flag, <<"e", "x", "t", "r", "a">>>> :
        id \in {<<"T", "1">>, <<"T", "2">>},
        name \in {<<"E", ".", " ", "c", "o", "l", "i", " ", "(", "K", "-", "1", "2", ")">>, <<"E", ".", " ", "c", "o", "l", "i">>},
        taxonomy \in {<<"P", "r", "o", "k", "a", "r", "y", "o", "t", "e", "s", ";", "B", "a", "c", "t", "e", "r", "i", "a">>, <<"E", "u", "k", "a", "r", "y", "o", "t", "e", "s">>},
        flag \in {<<"0">>, <<"1">>, <<"x">>} }

\* the files: one line each, of the first four, five or six fields
OrgLineFiles ==
    { <<Join(SubSeq(f, 1, n), <<"\t">>) \o <<"\n">>>> :
        f \in OrgLineFields, n \in 4..6 }

OrgLineInit ==
    /\ disk \in OrgLineFiles
    /\ records = <<>>
    /\ rdict = <<>>
    /\ raised = "none"
    /\ code_to_id = <<>>
    /\ pc = "open"
    /\ ent = <<>>
    /\ lines = <<>> /\ lpos = 1 /\ field_name = <<>> /\ obj = <<>>
    /\ warnings = <<>>
    /\ ReaderIdle
    /\ AuxIdle

OrgLineNext == OrgOpen \/ OrgLoad

SpecOrgLine == OrgLineInit /\ [][OrgLineNext]_vars

\* the tab-separated fields of the line of the file, without the newline
OrgLineOf == SplitOn(RStrip(disk[1], {"\n"}), "\t")

\* a line the organism format admits: five fields, the last one an integer
OrgLineWellFormed == Len(OrgLineOf) = 5 /\ ToInt(OrgLineOf[5]) # <<>>

\* C26: the first load of a file accepts its line only if the line has
\* exactly five tab-separated fields with an integer flag, and otherwise
\* fails with the error of the parse; the organism of an accepted line
\* has the semicolon-separated levels as taxonomy and the name without
\* its trailing parenthetical as search_name.
C26_OrganismLineShape ==
    (pc = "load" /\ Len(records) <= 1) =>
        IF OrgLineWellFormed
        THEN /\ raised = "none"
             /\ Len(records) = 1
             /\ records[1].taxonomy = SplitOn(OrgLineOf[4], ";")
             /\ records[1].search_name =
                    <<IF OrgLineOf[3] = <<"E", ".", " ", "c", "o", "l", "i", " ", "(", "K", "-", "1", "2", ")">> THEN <<"E", ".", " ", "c", "o", "l", "i">>
                      ELSE OrgLineOf[3]>>
        ELSE raised \in {"IndexError", "ValueError"} /\ records = <<>>


-----------------------------------------------------------------------------
(* Claims about the batches of get_kegg_records.                           *)

\* the ids a request url names: the part after get/, without the option,
\* cut at every '+', each id without its database prefix
IdsOfUrl(url) ==
    LET rest == From(url, Len(KeggUrl \o <<"g", "e", "t", "/">>))
        slashes == {i \in 1..Len(rest) : rest[i] = "/"}
        query == IF slashes = {} THEN rest
                 ELSE SubSeq(rest, 1, (CHOOSE i \in slashes :
                                          \A j \in slashes : i <= j) - 1)
        plus == {i \in 1..Len(query) : query[i] = "+"}
        at(k) == IF k = 0 THEN 0
                 ELSE IF k > Cardinality(plus) THEN Len(query) + 1
                 ELSE CHOOSE i \in plus : Cardinality({j \in plus : j < i}) = k - 1
        item(k) == SubSeq(query, at(k - 1) + 1, at(k) - 1)
    IN  IF query = <<>> THEN <<>>
        ELSE [k \in 1..(Cardinality(plus) + 1) |->
                 From(item(k), Find(item(k), <<":">>) + 1)]

\* the call of get_kegg_records has returned
KeggRecordsReturned ==
    /\ pc \in {"returned", "reactions"}
    /\ \A i \in 1..Len(sent) : StartsWith(sent[i].url, KeggUrl \o <<"g", "e", "t", "/">>)

\* C27: a call of get_kegg_records for n ids that returns has sent
\* exactly ceil(n/10) requests, none for n = 0, each for at most 10 ids,
\* and the requests in order name every id of the list once, in list
\* order; the lines returned are the responses to the batches one after
\* the other, and get_kegg_reactions makes of them one reaction for each
\* record, in request order.
C27_RequestBatching ==
    KeggRecordsReturned =>
        LET ids == kegg_args.id_list
            n == Len(ids)
        IN  /\ Len(sent) = (n + Increment - 1) \div Increment
            /\ \A i \in 1..Len(sent) : Len(IdsOfUrl(sent[i].url)) \in 1..Increment
            /\ Flatten([i \in 1..Len(sent) |-> IdsOfUrl(sent[i].url)]) = ids
            /\ result = Flatten([i \in 1..Len(sent) |->
                                    KeggRecordLines(IdsOfUrl(sent[i].url))])
            /\ pc = "reactions" =>
                   /\ Len(records) = n
                   /\ \A k \in 1..n : records[k].id = <<ids[k]>>

\* C27 witness: a call for 21 ids has returned after three requests, for
\* 10, 10 and 1 ids, and get_kegg_reactions has made 21 reactions.
C27_Witness ==
    /\ pc = "reactions"
    /\ Len(kegg_args.id_list) = 2 * Increment + 1
    /\ Len(sent) = 3
    /\ Len(IdsOfUrl(sent[3].url)) = 1
    /\ Len(records) = 2 * Increment + 1


-----------------------------------------------------------------------------
(* KeggEnzymeDatabase.validate: the enzymes are put in the database with   *)
(* update(), and validate() counts the obsolete ones.                      *)

\* the characters of [\d\-]
EcChars == DecimalDigits \cup {"-"}

\* re.findall(ec_number_re, s) on the segments that the '.' of one run of
\* digits, '-' and '.' cuts it into, from segment k on with the segments
\* in cur matched so far: four segments in a row that are not empty are
\* a match, and the search goes on after it
RECURSIVE EcMatches(_, _, _)
EcMatches(segs, k, cur) ==
    IF Len(cur) = 4
    THEN <<Join(cur, <<".">>)>> \o EcMatches(segs, k, <<>>)
    ELSE IF k > Len(segs) THEN <<>>
    ELSE IF segs[k] = <<>> THEN EcMatches(segs, k + 1, <<>>)
    ELSE EcMatches(segs, k + 1, Append(cur, segs[k]))

\* re.findall(ec_number_re, s): s is cut into its runs of digits, '-' and
\* '.', and the matches of the runs follow one another
RECURSIVE FindEcNumbers(_, _)
FindEcNumbers(s, run) ==
    IF s = <<>>
    THEN IF run = <<>> THEN <<>> ELSE EcMatches(SplitOn(run, "."), 1, <<>>)
    ELSE IF Head(s) \in EcChars \cup {"."}
    THEN FindEcNumbers(Tail(s), Append(run, Head(s)))
    ELSE (IF run = <<>> THEN <<>> ELSE EcMatches(SplitOn(run, "."), 1, <<>>))
         \o FindEcNumbers(Tail(s), <<>>)

\* the ec numbers of the text that the database has no record of
MissingOf(d, text) ==
    SelectSeq(FindEcNumbers(text, <<>>), LAMBDA ec : ~HasId(d, <<ec>>))

\* the dictionary validate() starts with
NewObsolete ==
    [num_obsolete |-> 0, num_transferred |-> 0, num_deleted |-> 0,
     missing_enzymes |-> <<>>]

\* the body of the loop of validate() for one enzyme: the counts and the
\* warnings after it, or the exception it raises
ValidateEnzyme(d, e, obsolete, warned) ==
    LET o1 == [obsolete EXCEPT !.num_obsolete = @ + 1]
        w1 == IF Len(e.name) > 1 THEN Append(warned, "MoreThanOneName")
              ELSE warned
    IN  IF e.obsolete = 0
        THEN [obsolete |-> obsolete, warnings |-> warned, raised |-> "none"]
        ELSE IF e.name = <<>>
        THEN [obsolete |-> o1, warnings |-> w1, raised |-> "IndexError"]
        ELSE IF StartsWith(e.name[1], <<"T", "r", "a", "n", "s", "f", "e", "r", "r", "e", "d", " ", "t", "o", " ">>)
        THEN [obsolete |-> [o1 EXCEPT !.num_transferred = @ + 1,
                                      !.missing_enzymes = @ \o MissingOf(d, e.name[1])],
              warnings |-> w1, raised |-> "none"]
        ELSE IF e.comment = <<>>
        THEN [obsolete |-> o1, warnings |-> w1, raised |-> "IndexError"]
        ELSE IF StartsWith(e.comment[1], <<"D", "e", "l", "e", "t", "e", "d", " ", "e", "n", "t", "r", "y", ":", " ">>)
        THEN [obsolete |-> [o1 EXCEPT !.num_deleted = @ + 1,
                                      !.missing_enzymes = @ \o MissingOf(d, e.comment[1])],
              warnings |-> w1, raised |-> "none"]
        ELSE [obsolete |-> o1,
              warnings |-> Append(w1, "NotTransferredOrDeleted"),
              raised |-> "none"]

\* validate() from the enzyme at position i on
RECURSIVE ValidateFrom(_, _, _, _, _)
ValidateFrom(l, d, i, obsolete, warned) ==
    IF i > Len(l)
    THEN [obsolete |-> obsolete, warnings |-> warned, raised |-> "none"]
    ELSE LET r == ValidateEnzyme(d, l[i], obsolete, warned)
         IN  IF r.raised # "none" THEN r
             ELSE ValidateFrom(l, d, i + 1, r.obsolete, r.warnings)

\* validate()
ValidateResult(l, d) == ValidateFrom(l, d, 1, NewObsolete, <<>>)

\* most enzymes the database holds
MaxEnzymes == 3

\* an enzyme with the given id, flag, names and comment lines
DbEnzyme(id, obs, names, comments) ==
    [NewEnzyme EXCEPT !.id = <<id>>, !.obsolete = obs, !.name = names,
                      !.comment = comments]

\* the enzymes of the database: one in use, one transferred to it, one
\* deleted with a reference to an enzyme the database lacks, one obsolete
\* with a comment that says neither, one obsolete without a comment
ValidateEnzymes ==
    { DbEnzyme(<<"1", ".", "1", ".", "1", ".", "1">>, 0, <<<<"n", "1">>>>, <<>>),
      DbEnzyme(<<"1", ".", "1", ".", "1", ".", "2">>, 1, <<<<"T", "r", "a", "n", "s", "f", "e", "r", "r", "e", "d", " ", "t", "o", " ", "1", ".", "1", ".", "1", ".", "1">>>>, <<>>),
      DbEnzyme(<<"1", ".", "1", ".", "1", ".", "3">>, 1, <<<<"n", "3">>>>, <<<<"D", "e", "l", "e", "t", "e", "d", " ", "e", "n", "t", "r", "y", ":", " ", "n", "o", "w", " ", "1", ".", "1", ".", "1", ".", "9">>>>),
      DbEnzyme(<<"1", ".", "1", ".", "1", ".", "4">>, 1, <<<<"n", "4">>, <<"n", "5">>>>, <<<<"c", "4">>>>),
      DbEnzyme(<<"1", ".", "1", ".", "1", ".", "5">>, 1, <<<<"n", "5">>>>, <<>>) }

ValidateInit ==
    /\ disk = <<>>
    /\ records = <<>>
    /\ rdict = <<>>
    /\ raised = "none"
    /\ code_to_id = <<>>
    /\ pc = "open"
    /\ ent = <<>>
    /\ lines = <<>> /\ lpos = 1 /\ field_name = <<>> /\ obj = <<>>
    /\ warnings = <<>>
    /\ ReaderIdle
    /\ AuxIdle

\* update(enzyme)
EnzymeDbUpdate(x) ==
    /\ HasId(rdict, x.id) \/ Len(records) < MaxEnzymes
    /\ LET r == UpdateResult(records, rdict, x)
       IN  /\ records' = r.records
           /\ rdict' = r.rdict
           /\ raised' = r.raised
    /\ pc' = "update"
    /\ ent' = <<x>>
    /\ obj' = <<>>
    /\ warnings' = <<>>
    /\ UNCHANGED <<disk, code_to_id, lines, lpos, field_name, readerVars,
                   auxVars>>

\* validate(): obj is the dictionary returned, none when the call raised,
\* and warnings are the warnings of the call
EnzymeDbValidate ==
    /\ LET r == ValidateResult(records, rdict)
       IN  /\ obj' = IF r.raised = "none" THEN <<r.obsolete>> ELSE <<>>
           /\ warnings' = r.warnings
           /\ raised' = r.raised
    /\ pc' = "validate"
    /\ ent' = <<>>
    /\ UNCHANGED <<records, rdict, disk, code_to_id, lines, lpos, field_name,
                   readerVars, auxVars>>

ValidateNext ==
    \/ \E x \in ValidateEnzymes : EnzymeDbUpdate(x)
    \/ EnzymeDbValidate

SpecValidate == ValidateInit /\ [][ValidateNext]_vars

\* the obsolete enzymes of the database that are neither transferred nor
\* deleted: the first name does not start with 'Transferred to ' and
\* there is no first comment that starts with 'Deleted entry: '
Anomalies ==
    {i \in 1..Len(records) :
        /\ records[i].obsolete # 0
        /\ ~(records[i].name # <<>>
             /\ StartsWith(records[i].name[1], <<"T", "r", "a", "n", "s", "f", "e", "r", "r", "e", "d", " ", "t", "o", " ">>))
        /\ ~(records[i].comment # <<>>
             /\ StartsWith(records[i].comment[1], <<"D", "e", "l", "e", "t", "e", "d", " ", "e", "n", "t", "r", "y", ":", " ">>))}

\* C28: validate() returns for every database, also one with an obsolete
\* enzyme that is neither transferred nor deleted and has no comment
\* line: it has warned once for each such enzyme, and the counts it
\* returns satisfy num_obsolete = num_transferred + num_deleted + the
\* number of these enzymes.  (validate() writes to no field of the
\* database.)
C28_ValidateNonFatal ==
    pc = "validate" =>
        /\ raised = "none"
        /\ obj # <<>>
        /\ Len(SelectSeq(warnings, LAMBDA w : w = "NotTransferredOrDeleted"))
             = Cardinality(Anomalies)
        /\ obj[1].num_obsolete
             = obj[1].num_transferred + obj[1].num_deleted + Cardinality(Anomalies)


-----------------------------------------------------------------------------
(* Claims about the organisms set_representatives flags.                   *)

\* C29: when set_representatives has returned, every organism that
\* carries the flag is a prokaryote (its first taxonomy level is
\* Prokaryotes), and the organisms that carry it are at most as many as
\* the distinct normalized names of the representatives of the OTU file.
C29_FlaggedAreProkaryotes ==
    (pc = "set_representatives" /\ raised = "none") =>
        /\ \A i \in FlaggedNow : records[i].taxonomy[1] = <<"P", "r", "o", "k", "a", "r", "y", "o", "t", "e", "s">>
        /\ Cardinality(FlaggedNow)
             <= Cardinality({analysis[k].name : k \in 1..Len(analysis)})

\* C29 witness: set_representatives has returned with two prokaryotes
\* flagged, one for each of the two representative names, and a
\* eukaryote that carried the flag in the file does not carry it.
C29_Witness ==
    /\ pc = "set_representatives"
    /\ raised = "none"
    /\ Cardinality(FlaggedNow) = 2
    /\ Cardinality({analysis[k].name : k \in 1..Len(analysis)}) = 2
    /\ \E i \in 1..Len(records) :
           /\ records[i].taxonomy[1] = <<"E", "u", "k", "a", "r", "y", "o", "t", "e", "s">>
           /\ OrgParse(disk[i]).obj.otu_representative = 1
           /\ records[i].otu_representative = 0


-----------------------------------------------------------------------------
(* load() of the three databases: a database of one of the three classes   *)
(* loads its file, and the file is rewritten between the loads.  pc is     *)
(* the class of the database and the last thing that happened.             *)

\* KeggEnzyme.parse from line i of the record on
RECURSIVE EnzymeParseFrom(_, _, _, _)
EnzymeParseFrom(o, fname, rec, i) ==
    IF i > Len(rec) THEN [obj |-> o, raised |-> "none"]
    ELSE LET out == EnzymeParseLine(o, fname, rec[i])
         IN  IF out.exit = "return" THEN [obj |-> out.obj, raised |-> "none"]
             ELSE IF out.exit # "" THEN [obj |-> out.obj, raised |-> out.exit]
             ELSE EnzymeParseFrom(out.obj, out.field_name, rec, i + 1)

\* KeggEnzyme(record)
EnzymeParse(rec) == EnzymeParseFrom(NewEnzyme, <<>>, rec, 1)

\* KeggEnzymeDatabase.load(): every record of the file is parsed before
\* `self.records += enzymes`
EnzymeLoadResult(l, d, file) ==
    LET recs == GetRecords(file, <<>>)
        parsed == [i \in 1..Len(recs) |-> EnzymeParse(recs[i])]
        bad == {i \in 1..Len(recs) : parsed[i].raised # "none"}
    IN  IF bad # {}
        THEN [records |-> l, rdict |-> d,
              raised |-> parsed[CHOOSE i \in bad : \A j \in bad : i <= j].raised]
        ELSE Extend(l, d, [i \in 1..Len(recs) |-> parsed[i].obj])

\* the lines of a file, each with its newline
WithNewlines(ls) == [k \in 1..Len(ls) |-> ls[k] \o <<"\n">>]

\* most records a database holds before a load
MaxLoaded == 2

\* the files of each class: two files that parse, and the first of them
\* with one more record that does not (an ENTRY line without the third
\* word, a line with no field tag before it, a line of four fields)
LoadFiles(class) ==
    IF class = "KeggEnzymeDatabase"
    THEN { WithNewlines(EnzymeMakeRecord(DbEnzyme(<<"1", ".", "1", ".", "1", ".", "1">>, 0, <<<<"n", "1">>>>, <<>>))),
           WithNewlines(EnzymeMakeRecord(DbEnzyme(<<"1", ".", "1", ".", "1", ".", "2">>, 1, <<<<"n", "2">>>>, <<<<"c", "2">>>>))),
           WithNewlines(EnzymeMakeRecord(DbEnzyme(<<"1", ".", "1", ".", "1", ".", "1">>, 0, <<<<"n", "1">>>>, <<>>))
                        \o <<<<"E", "N", "T", "R", "Y", " ", " ", " ", " ", " ", " ", " ", "E", "C", " ", "1", ".", "1", ".", "1", ".", "9">>, <<"/", "/", "/">>>>) }
    ELSE IF class = "KeggReactionDatabase"
    THEN { FileOf(<<DbReaction(<<"R", "0", "0", "0", "0", "1">>, <<"a">>)>>),
           FileOf(<<DbReaction(<<"R", "0", "0", "0", "0", "2">>, <<"b">>)>>),
           FileOf(<<DbReaction(<<"R", "0", "0", "0", "0", "1">>, <<"a">>)>>)
               \o WithNewlines(<<<<" ", " ", " ", " ", " ", " ", " ", " ", " ", " ", " ", " ", "R", "0", "0", "0", "0", "9">>, <<"/", "/", "/">>>>) }
    ELSE { OrgFileOf(<<OrgEco>>),
           OrgFileOf(<<OrgHsa>>),
           OrgFileOf(<<OrgEco>>)
               \o WithNewlines(<<Join(<<<<"T", "9">>, <<"x", "x", "x">>, <<"X", ".", " ", "x">>, <<"P", "r", "o", "k", "a", "r", "y", "o", "t", "e", "s">>>>, <<"\t">>)>>) }

DbClasses == {"KeggEnzymeDatabase", "KeggReactionDatabase", "KeggOrganismDatabase"}

LoadInit ==
    /\ \E class \in DbClasses :
        /\ pc = <<class, "open">>
        /\ disk \in LoadFiles(class)
    /\ records = <<>>
    /\ rdict = <<>>
    /\ raised = "none"
    /\ code_to_id = <<>>
    /\ ent = <<>>
    /\ lines = <<>> /\ lpos = 1 /\ field_name = <<>> /\ obj = <<>>
    /\ warnings = <<>>
    /\ ReaderIdle
    /\ AuxIdle

\* another program writes the file of the database anew
LoadFileWritten ==
    /\ disk' \in LoadFiles(pc[1]) \ {disk}
    /\ pc' = <<pc[1], "file">>
    /\ UNCHANGED <<records, rdict, raised, code_to_id, ent, lines, lpos,
                   field_name, obj, warnings, readerVars, auxVars>>

\* what is common to the three loads
LoadDone(r) ==
    /\ records' = r.records
    /\ rdict' = r.rdict
    /\ raised' = r.raised
    /\ pc' = <<pc[1], "load">>
    /\ UNCHANGED <<disk, ent, lines, lpos, field_name, obj, warnings,
                   readerVars, auxVars>>

\* KeggEnzymeDatabase.load()
EnzymeDbLoad ==
    /\ pc[1] = "KeggEnzymeDatabase"
    /\ Len(records) <= MaxLoaded
    /\ LoadDone(EnzymeLoadResult(records, rdict, disk))
    /\ UNCHANGED code_to_id

\* KeggReactionDatabase.load()
ReactionDbLoad ==
    /\ pc[1] = "KeggReactionDatabase"
    /\ Len(records) <= MaxLoaded
    /\ LoadDone(LoadResult(records, rdict, disk))
    /\ UNCHANGED code_to_id

\* KeggOrganismDatabase.load()
OrganismDbLoad ==
    /\ pc[1] = "KeggOrganismDatabase"
    /\ Len(records) <= MaxLoaded
    /\ LET r == OrgLoadResult(records, rdict, code_to_id, disk)
       IN  LoadDone(r) /\ code_to_id' = r.code_to_id

LoadNext ==
    \/ LoadFileWritten
    \/ EnzymeDbLoad
    \/ ReactionDbLoad
    \/ OrganismDbLoad

SpecLoad == LoadInit /\ [][LoadNext]_vars

\* the exceptions of the records of a file of a class, in file order,
\* "none" for a record that parses
ParseOutcomes(class, file) ==
    IF class = "KeggOrganismDatabase"
    THEN [i \in 1..Len(file) |-> OrgParse(file[i]).raised]
    ELSE LET recs == GetRecords(file, <<>>)
         IN  [i \in 1..Len(recs) |->
                 IF class = "KeggEnzymeDatabase" THEN EnzymeParse(recs[i]).raised
                 ELSE ReactionParse(recs[i]).raised]

\* C30: a load() of a file with a record that fails to parse raises and
\* adds no record of the file, whichever of the three databases it is:
\* the records, their order, their index and the code index are what
\* they were before the call.
C30_LoadAllOrNothing ==
    [][(pc'[2] = "load"
        /\ \E i \in DOMAIN ParseOutcomes(pc[1], disk) :
               ParseOutcomes(pc[1], disk)[i] # "none")
       => /\ raised' # "none"
          /\ records' = records
          /\ rdict' = rdict
          /\ code_to_id' = code_to_id]_vars

\* C30 witness: a database that held a record has loaded a file whose
\* first record parses and whose second does not; the load has raised
\* and the database holds the one record it held.
C30_Witness ==
    /\ pc[2] = "load"
    /\ raised \in {"IndexError", "UnboundLocalError"}
    /\ Len(records) = 1
    /\ Len(ParseOutcomes(pc[1], disk)) = 2
    /\ ParseOutcomes(pc[1], disk)[1] = "none"
    /\ ParseOutcomes(pc[1], disk)[2] = raised

=============================================================================
